---- MODULE Spec2Model ----
(***************************************************************************)
(* Model of the blend-file container engine of rbat (blend_file_reader):   *)
(* the header codec, the block codec and its iterator, the field accessors *)
(* and the container (open / open_read_write / save / close).              *)
(*                                                                         *)
(* A byte is a number in 0..255, a byte buffer is a sequence of bytes.     *)
(* A u32 is a natural number; a u64 is kept as its two 32-bit halves       *)
(* [hi, lo], because TLC integers are 32 bits wide.                        *)
(***************************************************************************)
EXTENDS Integers, Sequences, FiniteSets, TLC

VARIABLES
    h_pc, h_in, h_res, h_out, h_open,             \* header codec harness
    b_hdr, b_recs, b_stream, b_pos,               \* block iterator harness
    b_finished, b_items, b_last, b_out, b_emitted,
    w_pc, w_hdr, w_block, w_bytes, w_back,        \* block write/read harness
    disk, bf, lastOp, lastRes, fresh, saved,      \* container
    loaded, edits, s_fault,
    q_c, q_code, q_ro, q_mut, q_cat,              \* lookup-by-type harness
    f_pc, f_block, f_prev, f_val, f_count, f_got, \* field accessor harness
    z_file, z_made, z_data, z_open, z_plain,      \* codec harness
    m_window, m_now, m_pending, m_map, m_recent,  \* move detector harness
    m_last, m_stamp, m_recorded, m_moved, m_calls,
    l_pc, l_file, l_links, l_res,                 \* library link harness
    s_pc, s_str, s_max, s_init, s_buf             \* write_string harness

hvars == <<h_pc, h_in, h_res, h_out, h_open>>
bvars == <<b_hdr, b_recs, b_stream, b_pos, b_finished, b_items, b_last,
           b_out, b_emitted>>
wvars == <<w_pc, w_hdr, w_block, w_bytes, w_back>>
cvars == <<disk, bf, lastOp, lastRes, fresh, saved, loaded, edits, s_fault>>
qvars == <<q_c, q_code, q_ro, q_mut, q_cat>>
fvars == <<f_pc, f_block, f_prev, f_val, f_count, f_got>>
zvars == <<z_file, z_made, z_data, z_open, z_plain>>
mvars == <<m_window, m_now, m_pending, m_map, m_recent, m_last, m_stamp,
           m_recorded, m_moved, m_calls>>
lvars == <<l_pc, l_file, l_links, l_res>>
svars == <<s_pc, s_str, s_max, s_init, s_buf>>
xvars == <<mvars, lvars, svars>>
vars == <<hvars, bvars, wvars, cvars, qvars, fvars, zvars, xvars>>

----------------------------------------------------------------------------
(* Bytes and byte buffers *)

Byte == 0..255

None == [some |-> FALSE]
Some(v) == [some |-> TRUE, val |-> v]

Min(a, b) == IF a <= b THEN a ELSE b

RECURSIVE Concat(_)
Concat(ss) == IF ss = <<>> THEN <<>> ELSE Head(ss) \o Concat(Tail(ss))

Reverse(s) == [i \in 1..Len(s) |-> s[Len(s) + 1 - i]]

\* all sequences over S of length 0..n
SeqsUpTo(S, n) == UNION {[1..k -> S] : k \in 0..n}

\* std::io::Cursor / Read::read_exact: n bytes at 0-based position pos are
\* available iff the buffer holds them all
CanRead(data, pos, n) == pos + n <= Len(data)
Slice(data, pos, n) == SubSeq(data, pos + 1, pos + n)

Ok(v) == [ok |-> TRUE, val |-> v]
Err(kind, what) == [ok |-> FALSE, kind |-> kind, what |-> what]

----------------------------------------------------------------------------
(* Header codec: blend_file_reader/src/header.rs *)

MAGIC == <<66, 76, 69, 78, 68, 69, 82>>           \* b"BLENDER"

IsDigit(b) == b \in 48..57

\* str::parse::<u32> on String::from_utf8_lossy of the bytes: an optional
\* '+' followed by at least one decimal digit and nothing else.  A byte
\* >= 128 decodes to a non-digit character, so it is rejected like any
\* other non-digit.
RECURSIVE DecimalValue(_, _)
DecimalValue(bytes, acc) ==
    IF bytes = <<>> THEN acc
    ELSE DecimalValue(Tail(bytes), acc * 10 + (Head(bytes) - 48))

parse_u32(bytes) ==
    LET digits == IF bytes # <<>> /\ Head(bytes) = 43 THEN Tail(bytes) ELSE bytes
    IN IF digits # <<>> /\ \A i \in 1..Len(digits) : IsDigit(digits[i])
       THEN Ok(DecimalValue(digits, 0))
       ELSE Err("InvalidFormat", bytes)

\* faulty variants of Header::from_reader: "magic6" compares six bytes of
\* the magic, "ptr" takes every pointer-width byte but '_' as 64-bit,
\* "end" maps 'v' to big and 'V' to little endian
Header_from_reader_with(data, fault) ==
    LET magicOk == IF fault = "magic6" THEN Slice(data, 0, 6) = SubSeq(MAGIC, 1, 6)
                   ELSE Slice(data, 0, 7) = MAGIC
        ptrOk   == fault = "ptr" \/ data[8] \in {95, 45}
        little  == IF fault = "end" THEN data[9] = 86 ELSE data[9] = 118
    IN
    IF ~CanRead(data, 0, 7) THEN Err("IoError", <<>>)
    ELSE IF ~magicOk THEN Err("InvalidFormat", Slice(data, 0, 7))
    ELSE IF ~CanRead(data, 7, 1) THEN Err("IoError", <<>>)
    ELSE IF ~ptrOk THEN Err("InvalidFormat", <<data[8]>>)
    ELSE IF ~CanRead(data, 8, 1) THEN Err("IoError", <<>>)
    ELSE IF data[9] \notin {118, 86} THEN Err("InvalidFormat", <<data[9]>>)
    ELSE IF ~CanRead(data, 9, 3) THEN Err("IoError", <<>>)
    ELSE LET version == parse_u32(Slice(data, 9, 3))
         IN IF ~version.ok THEN version
            ELSE Ok([magic        |-> Slice(data, 0, 7),
                     pointer_size |-> IF data[8] = 95 THEN "Bits32" ELSE "Bits64",
                     endianness   |-> IF little THEN "Little" ELSE "Big",
                     version      |-> version.val])

Header_from_reader_magic6(data) == Header_from_reader_with(data, "magic6")
Header_from_reader_any_ptr(data) == Header_from_reader_with(data, "ptr")
Header_from_reader_swapped_end(data) == Header_from_reader_with(data, "end")

Header_from_reader(data) ==
    IF ~CanRead(data, 0, 7) THEN Err("IoError", <<>>)
    ELSE IF Slice(data, 0, 7) # MAGIC THEN Err("InvalidFormat", Slice(data, 0, 7))
    ELSE IF ~CanRead(data, 7, 1) THEN Err("IoError", <<>>)
    ELSE IF data[8] \notin {95, 45} THEN Err("InvalidFormat", <<data[8]>>)
    ELSE IF ~CanRead(data, 8, 1) THEN Err("IoError", <<>>)
    ELSE IF data[9] \notin {118, 86} THEN Err("InvalidFormat", <<data[9]>>)
    ELSE IF ~CanRead(data, 9, 3) THEN Err("IoError", <<>>)
    ELSE LET version == parse_u32(Slice(data, 9, 3))
         IN IF ~version.ok THEN version
            ELSE Ok([magic        |-> Slice(data, 0, 7),
                     pointer_size |-> IF data[8] = 95 THEN "Bits32" ELSE "Bits64",
                     endianness   |-> IF data[9] = 118 THEN "Little" ELSE "Big",
                     version      |-> version.val])

\* bytes consumed by a successful Header::from_reader
HEADER_LEN == 7 + 1 + 1 + 3

\* format!("{:03}", n): the decimal digits of n, zero-padded on the left to
\* a width of at least 3
RECURSIVE DecimalDigits(_)
DecimalDigits(n) ==
    IF n < 10 THEN <<48 + n>> ELSE DecimalDigits(n \div 10) \o <<48 + (n % 10)>>

format_03(n) ==
    LET d == DecimalDigits(n)
    IN IF Len(d) >= 3 THEN d ELSE [i \in 1..(3 - Len(d)) |-> 48] \o d

Header_write_to_writer(h) ==
    h.magic
    \o <<IF h.pointer_size = "Bits32" THEN 95 ELSE 45>>
    \o <<IF h.endianness = "Little" THEN 118 ELSE 86>>
    \o format_03(h.version)

PointerSize_bytes(h) == IF h.pointer_size = "Bits32" THEN 4 ELSE 8

----------------------------------------------------------------------------
(* Block codec: src/block.rs *)

DNA1 == <<68, 78, 65, 49>>                        \* b"DNA1"

\* byteorder write_u32 / read_u32 in the header's endianness
U32LE(n) == <<n % 256, (n \div 256) % 256, (n \div 65536) % 256,
              (n \div 16777216) % 256>>

write_u32(endianness, n) ==
    IF endianness = "Little" THEN U32LE(n) ELSE Reverse(U32LE(n))

\* faulty variant: every u32 is read little-endian
read_u32_le(endianness, bytes) ==
    bytes[1] + 256 * bytes[2] + 65536 * bytes[3] + 16777216 * bytes[4]

read_u32(endianness, bytes) ==
    LET b == IF endianness = "Little" THEN bytes ELSE Reverse(bytes)
    IN b[1] + 256 * b[2] + 65536 * b[3] + 16777216 * b[4]

\* byteorder write_u64 / read_u64; a u64 is [hi, lo], its two 32-bit halves
write_u64(endianness, a) ==
    IF endianness = "Little"
    THEN U32LE(a.lo) \o U32LE(a.hi)
    ELSE Reverse(U32LE(a.hi)) \o Reverse(U32LE(a.lo))

\* faulty variant: the big-endian halves taken in little-endian order
read_u64_swapped(endianness, bytes) ==
    IF endianness = "Little"
    THEN [hi |-> read_u32("Little", SubSeq(bytes, 5, 8)),
          lo |-> read_u32("Little", SubSeq(bytes, 1, 4))]
    ELSE [hi |-> read_u32("Big", SubSeq(bytes, 5, 8)),
          lo |-> read_u32("Big", SubSeq(bytes, 1, 4))]

read_u64(endianness, bytes) ==
    IF endianness = "Little"
    THEN [hi |-> read_u32("Little", SubSeq(bytes, 5, 8)),
          lo |-> read_u32("Little", SubSeq(bytes, 1, 4))]
    ELSE [hi |-> read_u32("Big", SubSeq(bytes, 1, 4)),
          lo |-> read_u32("Big", SubSeq(bytes, 5, 8))]

\* `addr as u64` and `self.old_memory_address as u32`
u32_as_u64(n) == [hi |-> 0, lo |-> n]
\* faulty variant: the high half is kept
u64_as_u32_high(a) == a.hi
u64_as_u32(a) == a.lo

\* Result<Option<Block>> of Block::from_reader on a cursor over data at
\* 0-based position pos.  kind "Block": Ok(Some(block)), the cursor ends at
\* `at`; kind "None": Ok(None), on a failed read of the type code at `at`
\* (eof) or past the terminator tag; kind "Err": the read at position `at`
\* failed.
\* faulty variant: no type code ends the sequence
is_terminator_never(code) == FALSE

\* the check for the DNA1 tag
is_terminator(code) == code = DNA1

\* faulty variant: a short read hands back the bytes that are there
read_payload_short(data, pos, size) ==
    Ok(SubSeq(data, pos + 1, Min(pos + size, Len(data))))

\* vec![0u8; size] filled by read_exact
read_payload(data, pos, size) ==
    IF CanRead(data, pos, size) THEN Ok(Slice(data, pos, size))
    ELSE Err("IoError", <<>>)

BlockErr(at) == [kind |-> "Err", at |-> at, err |-> Err("IoError", <<>>)]

Block_from_reader(data, pos, header) ==
    LET P    == PointerSize_bytes(header)
        e    == header.endianness
        code == Slice(data, pos, 4)
    IN
    IF ~CanRead(data, pos, 4) THEN [kind |-> "None", eof |-> TRUE, at |-> pos]
    ELSE IF is_terminator(code) THEN [kind |-> "None", eof |-> FALSE, at |-> pos + 4]
    ELSE IF ~CanRead(data, pos + 4, 4) THEN BlockErr(pos + 4)
    ELSE IF ~CanRead(data, pos + 8, P) THEN BlockErr(pos + 8)
    ELSE IF ~CanRead(data, pos + 8 + P, 4) THEN BlockErr(pos + 8 + P)
    ELSE IF ~CanRead(data, pos + 12 + P, 4) THEN BlockErr(pos + 12 + P)
    ELSE
    LET size == read_u32(e, Slice(data, pos + 4, 4))
        old_memory_address ==
            IF header.pointer_size = "Bits32"
            THEN u32_as_u64(read_u32(e, Slice(data, pos + 8, 4)))
            ELSE read_u64(e, Slice(data, pos + 8, 8))
        sdna_index == read_u32(e, Slice(data, pos + 8 + P, 4))
        count == read_u32(e, Slice(data, pos + 12 + P, 4))
        payload == read_payload(data, pos + 16 + P, size)
    IN
    IF ~payload.ok THEN BlockErr(pos + 16 + P)
    ELSE [kind  |-> "Block",
          at    |-> pos + 16 + P + Len(payload.val),
          block |-> [code               |-> code,
                     size               |-> size,
                     old_memory_address |-> old_memory_address,
                     sdna_index         |-> sdna_index,
                     count              |-> count,
                     data_offset        |-> pos + 16 + P + Len(payload.val),
                     data               |-> payload.val]]

\* faulty variant: the size is written little-endian whatever the header says
Block_write_to_writer_le(b, header) ==
    LET e == header.endianness
    IN b.code
       \o write_u32("Little", b.size)
       \o (IF header.pointer_size = "Bits32"
           THEN write_u32(e, u64_as_u32(b.old_memory_address))
           ELSE write_u64(e, b.old_memory_address))
       \o write_u32(e, b.sdna_index)
       \o write_u32(e, b.count)
       \o b.data

Block_write_to_writer(b, header) ==
    LET e == header.endianness
    IN b.code
       \o write_u32(e, b.size)
       \o (IF header.pointer_size = "Bits32"
           THEN write_u32(e, u64_as_u32(b.old_memory_address))
           ELSE write_u64(e, b.old_memory_address))
       \o write_u32(e, b.sdna_index)
       \o write_u32(e, b.count)
       \o b.data

\* Where a cursor stands after a read_exact that failed at position `at`:
\* the standard library leaves this unspecified (it has left the cursor in
\* place, and it has moved it to the end of the buffer).
CursorAfterFailure(data, at) == {at, Len(data)}

\* The loop of BlendFile::open over BlockIterator: every block up to the
\* first None, or the first error
RECURSIVE CollectBlocks(_, _, _, _)
CollectBlocks(data, pos, header, acc) ==
    LET r == Block_from_reader(data, pos, header)
    IN CASE r.kind = "Block" -> CollectBlocks(data, r.at, header, Append(acc, r.block))
         [] r.kind = "None"  -> [ok |-> TRUE, blocks |-> acc, stop |-> pos, eof |-> r.eof]
         [] r.kind = "Err"   -> r.err

ParseBlocks(data, pos, header) == CollectBlocks(data, pos, header, <<>>)

----------------------------------------------------------------------------
(* Field accessors: src/block.rs *)

\* faulty variant: the NUL is appended when the value fills the payload
set_string_field_push(b, value) ==
    LET len == Min(Len(value), Len(b.data))
    IN [b EXCEPT !.data =
          IF len = Len(b.data) /\ len > 0
          THEN [i \in 1..len |-> value[i]] \o <<0>>
          ELSE [i \in 1..Len(b.data) |->
                  IF i <= len THEN value[i]
                  ELSE IF i = len + 1 THEN 0
                  ELSE b.data[i]]]

\* Block::set_string_field: the value's bytes, cut to the payload length,
\* over the start of the payload, then a NUL if a byte is left
set_string_field(b, value) ==
    LET len == Min(Len(value), Len(b.data))
    IN [b EXCEPT !.data =
          [i \in 1..Len(b.data) |->
              IF i <= len THEN value[i]
              ELSE IF i = len + 1 THEN 0
              ELSE b.data[i]]]

\* String::from_utf8_lossy.  A String is its UTF-8 bytes.  The bytes are
\* walked as core::str::Utf8Chunks does: a well-formed sequence is copied,
\* and each maximal ill-formed part is replaced by one U+FFFD.
REPLACEMENT == <<239, 191, 189>>                  \* U+FFFD in UTF-8

utf8_char_width(b) ==
    IF b < 128 THEN 1
    ELSE IF b \in 194..223 THEN 2
    ELSE IF b \in 224..239 THEN 3
    ELSE IF b \in 240..244 THEN 4
    ELSE 0

\* byte i (from 1) of s, or 0 past the end
safe_get(s, i) == IF i <= Len(s) THEN s[i] ELSE 0

is_continuation(b) == b \in 128..191

\* the part that starts at byte i: whether it is well-formed, and its length
utf8_chunk(s, i) ==
    LET b  == s[i]
        w  == utf8_char_width(b)
        b1 == safe_get(s, i + 1)
        b2 == safe_get(s, i + 2)
        b3 == safe_get(s, i + 3)
        second3 == \/ b = 224 /\ b1 \in 160..191
                   \/ b \in 225..236 /\ b1 \in 128..191
                   \/ b = 237 /\ b1 \in 128..159
                   \/ b \in 238..239 /\ b1 \in 128..191
        second4 == \/ b = 240 /\ b1 \in 144..191
                   \/ b \in 241..243 /\ b1 \in 128..191
                   \/ b = 244 /\ b1 \in 128..143
    IN CASE w = 1 -> [ok |-> TRUE, n |-> 1]
         [] w = 2 -> IF is_continuation(b1) THEN [ok |-> TRUE, n |-> 2]
                     ELSE [ok |-> FALSE, n |-> 1]
         [] w = 3 -> IF ~second3 THEN [ok |-> FALSE, n |-> 1]
                     ELSE IF ~is_continuation(b2) THEN [ok |-> FALSE, n |-> 2]
                     ELSE [ok |-> TRUE, n |-> 3]
         [] w = 4 -> IF ~second4 THEN [ok |-> FALSE, n |-> 1]
                     ELSE IF ~is_continuation(b2) THEN [ok |-> FALSE, n |-> 2]
                     ELSE IF ~is_continuation(b3) THEN [ok |-> FALSE, n |-> 3]
                     ELSE [ok |-> TRUE, n |-> 4]
         [] OTHER -> [ok |-> FALSE, n |-> 1]

RECURSIVE lossy_from(_, _)
lossy_from(s, i) ==
    IF i > Len(s) THEN <<>>
    ELSE LET c == utf8_chunk(s, i)
         IN (IF c.ok THEN SubSeq(s, i, i + c.n - 1) ELSE REPLACEMENT)
            \o lossy_from(s, i + c.n)

from_utf8_lossy(bytes) == lossy_from(bytes, 1)

\* str::as_bytes: a &str is a sequence of characters, each its UTF-8 bytes
as_bytes(str) == Concat(str)

\* faulty variant: the scan for the NUL byte is left out
get_string_field_no_scan(b) == Ok(from_utf8_lossy(b.data))

\* Block::get_string_field: the payload up to its first NUL byte (or its
\* end), lossily decoded
get_string_field(b) ==
    LET nuls     == {i \in 1..Len(b.data) : b.data[i] = 0}
        null_pos == IF nuls = {} THEN Len(b.data)
                    ELSE (CHOOSE i \in nuls : \A j \in nuls : i <= j) - 1
    IN Ok(from_utf8_lossy(SubSeq(b.data, 1, null_pos)))

\* an f32 is its IEEE-754 bit pattern, most significant byte first
f32_to_le_bytes(v) == Reverse(v)
f32_from_le_bytes(bytes) == Reverse(bytes)

F32_ZERO == <<0, 0, 0, 0>>                        \* 0.0

\* faulty variant: a slot that ends at the last payload byte is out of range
get_float_array_field_short(b, count) ==
    Ok([i \in 1..count |->
          IF (i - 1) * 4 + 4 < Len(b.data)
          THEN f32_from_le_bytes(SubSeq(b.data, (i - 1) * 4 + 1, (i - 1) * 4 + 4))
          ELSE F32_ZERO])

\* Block::get_float_array_field: element i is read from bytes [4i, 4i+4)
\* when they lie inside the payload, and is 0.0 otherwise
get_float_array_field(b, count) ==
    Ok([i \in 1..count |->
          IF (i - 1) * 4 + 4 <= Len(b.data)
          THEN f32_from_le_bytes(SubSeq(b.data, (i - 1) * 4 + 1, (i - 1) * 4 + 4))
          ELSE F32_ZERO])

\* Block::set_float_array_field: value i goes to bytes [4i, 4i+4) when the
\* slot lies inside the payload, and is skipped otherwise
set_float_array_field(b, values) ==
    [b EXCEPT !.data =
        [k \in 1..Len(b.data) |->
            LET i == (k - 1) \div 4
            IN IF i < Len(values) /\ i * 4 + 4 <= Len(b.data)
               THEN f32_to_le_bytes(values[i + 1])[k - 4 * i]
               ELSE b.data[k]]]

----------------------------------------------------------------------------
(* Whole-file compression: blend_file_reader/src/blend_file.rs             *)
(* The decoders are library code (flate2, zstd).  They are modelled by a   *)
(* stand-in container format: the signature, the payload bytes shifted    *)
(* by a key that differs between the codecs, and a trailing check byte    *)
(* holding the payload length.                                            *)

ZLIB_SIGS == {<<120, 156>>, <<120, 1>>, <<120, 218>>}
ZSTD_SIG == <<40, 181, 47, 253>>
GZIP_SIG == <<31, 139, 8, 0>>

\* the key of the codec a signature belongs to: its first byte
Scramble(sig, bytes) == [i \in 1..Len(bytes) |-> (bytes[i] + sig[1]) % 256]
Unscramble(sig, bytes) == [i \in 1..Len(bytes) |-> (bytes[i] + 256 - sig[1]) % 256]

Compress(sig, data) == sig \o Scramble(sig, data) \o <<Len(data) % 256>>

\* decoder.read_to_end over the whole file, signature included
Decode(sig, file) ==
    LET body == SubSeq(file, Len(sig) + 1, Len(file) - 1)
    IN IF Len(file) <= Len(sig) \/ file[Len(file)] # Len(body) % 256
       THEN Err("IoError", <<>>)
       ELSE Ok(Unscramble(sig, body))

\* faulty variant: gzip is recognised by its two identification bytes
decompress_if_needed_gzip_id(file) ==
    IF ~CanRead(file, 0, 4) THEN Err("IoError", <<>>)
    ELSE LET magic == Slice(file, 0, 4)
         IN IF SubSeq(magic, 1, 2) \in ZLIB_SIGS THEN Decode(SubSeq(magic, 1, 2), file)
            ELSE IF magic = ZSTD_SIG THEN Decode(ZSTD_SIG, file)
            ELSE IF SubSeq(magic, 1, 2) = SubSeq(GZIP_SIG, 1, 2) THEN Decode(GZIP_SIG, file)
            ELSE Ok(file)

\* faulty variant: the zstd branch is missing
decompress_if_needed_no_zstd(file) ==
    IF ~CanRead(file, 0, 4) THEN Err("IoError", <<>>)
    ELSE LET magic == Slice(file, 0, 4)
         IN IF SubSeq(magic, 1, 2) \in ZLIB_SIGS THEN Decode(SubSeq(magic, 1, 2), file)
            ELSE IF magic = GZIP_SIG THEN Decode(GZIP_SIG, file)
            ELSE Ok(file)

decompress_if_needed(file) ==
    IF ~CanRead(file, 0, 4) THEN Err("IoError", <<>>)
    ELSE LET magic == Slice(file, 0, 4)
         IN IF SubSeq(magic, 1, 2) \in ZLIB_SIGS THEN Decode(SubSeq(magic, 1, 2), file)
            ELSE IF magic = ZSTD_SIG THEN Decode(ZSTD_SIG, file)
            ELSE IF magic = GZIP_SIG THEN Decode(GZIP_SIG, file)
            ELSE Ok(file)

----------------------------------------------------------------------------
(* Paths: std::path::Path as the sequence of its components *)

RootDir == [kind |-> "RootDir", stem |-> "", ext |-> ""]
Normal(stem, ext) == [kind |-> "Normal", stem |-> stem, ext |-> ext]

\* Path::file_name: the last component when it is a normal one
file_name(path) ==
    IF path # <<>> /\ path[Len(path)].kind = "Normal"
    THEN Some(path[Len(path)]) ELSE None

\* Path::extension: the part of the file name after its last dot
extension(path) ==
    IF file_name(path).some /\ file_name(path).val.ext # ""
    THEN Some(file_name(path).val.ext) ELSE None

\* Path::parent: the path without its last component
parent(path) ==
    IF path = <<>> \/ path = <<RootDir>> THEN None
    ELSE Some(SubSeq(path, 1, Len(path) - 1))

\* A path as text: the sequence of its separators "/" and of the runs of
\* other characters between them.
SEP == "/"

starts_with(text, prefix) ==
    Len(text) >= Len(prefix) /\ SubSeq(text, 1, Len(prefix)) = prefix

\* Path::is_absolute on Unix
is_absolute(text) == starts_with(text, <<SEP>>)

\* the text without its trailing separators, the root kept
RECURSIVE trim_separators(_)
trim_separators(text) ==
    IF Len(text) > 1 /\ text[Len(text)] = SEP
    THEN trim_separators(SubSeq(text, 1, Len(text) - 1))
    ELSE text

\* Path::parent on the text: None for the empty path and for the root
path_parent(text) ==
    LET t == trim_separators(text)
    IN IF t = <<>> \/ t = <<SEP>> THEN None
       ELSE Some(trim_separators(SubSeq(t, 1, Len(t) - 1)))

\* Path::join: an absolute argument replaces the base; otherwise the
\* argument is appended, after a separator when the base needs one
path_join(base, text) ==
    IF is_absolute(text) THEN text
    ELSE IF base = <<>> \/ base[Len(base)] = SEP THEN base \o text
    ELSE base \o <<SEP>> \o text

\* Path::to_string_lossy on a path built from Strings: the text itself
to_string_lossy(text) == text

----------------------------------------------------------------------------
(* Library links: src/library_link.rs *)

\* the link parse_*_block builds for a non-empty path string
LibraryLink(path, block_type) ==
    [path |-> path, absolute_path |-> None, block_type |-> block_type,
     block_name |-> None,
     is_relative |-> starts_with(path, <<SEP, SEP>>) \/ ~starts_with(path, <<SEP>>)]

\* LibraryLinkExtractor::resolve_relative_paths
resolve_relative_paths(blend_file_path, links) ==
    LET blend_dir == path_parent(blend_file_path)
    IN IF ~blend_dir.some THEN [res |-> Err("InvalidFormat", <<>>), links |-> links]
       ELSE [res |-> Ok(<<>>),
             links |-> [i \in 1..Len(links) |->
                 IF links[i].is_relative
                 THEN [links[i] EXCEPT !.absolute_path =
                          Some(to_string_lossy(path_join(blend_dir.val, links[i].path)))]
                 ELSE links[i]]]

----------------------------------------------------------------------------
(* Move detector: wherego/src/lib.rs *)

MAX_PENDING == 1000
MAX_RECENT == 100
MIN_SCORE == 50

\* MoveDetector::new
MoveDetector_new(correlation_window) ==
    [pending_deletes |-> <<>>, correlation_window |-> correlation_window,
     move_map |-> {}, recent_moves |-> <<>>, max_pending |-> MAX_PENDING]

\* the last n elements of a queue: pop_front while longer than n
KeepLast(q, n) == IF Len(q) > n THEN SubSeq(q, Len(q) - n + 1, Len(q)) ELSE q

\* MoveDetector::calculate_match_score
calculate_match_score(old_path, new_path) ==
    LET min_len == Min(Len(old_path), Len(new_path))
        matching_components ==
            Cardinality({i \in 1..min_len : old_path[i] = new_path[i]})
    IN (IF file_name(old_path) = file_name(new_path) THEN 40 ELSE 0)
       + (IF extension(old_path) = extension(new_path) THEN 20 ELSE 0)
       + (IF parent(old_path) = parent(new_path) THEN 30 ELSE 0)
       + matching_components * 10

\* the loop of find_best_match from entry idx on, later entries winning ties
RECURSIVE best_from_ties_last(_, _, _, _, _, _)
best_from_ties_last(pending, new_path, is_directory, idx, best_score, best_idx) ==
    IF idx > Len(pending) THEN [score |-> best_score, idx |-> best_idx]
    ELSE LET score == calculate_match_score(pending[idx].path, new_path)
         IN IF pending[idx].is_directory = is_directory /\ score >= best_score
            THEN best_from_ties_last(pending, new_path, is_directory, idx + 1,
                                     score, Some(idx))
            ELSE best_from_ties_last(pending, new_path, is_directory, idx + 1,
                                     best_score, best_idx)

\* the loop of find_best_match from entry idx on
RECURSIVE best_from(_, _, _, _, _, _)
best_from(pending, new_path, is_directory, idx, best_score, best_idx) ==
    IF idx > Len(pending) THEN [score |-> best_score, idx |-> best_idx]
    ELSE LET score == calculate_match_score(pending[idx].path, new_path)
         IN IF pending[idx].is_directory = is_directory /\ score > best_score
            THEN best_from(pending, new_path, is_directory, idx + 1, score, Some(idx))
            ELSE best_from(pending, new_path, is_directory, idx + 1,
                           best_score, best_idx)

\* MoveDetector::find_best_match
find_best_match(det, new_path, is_directory) ==
    LET best == best_from(det.pending_deletes, new_path, is_directory, 1, 0, None)
    IN IF best.score >= MIN_SCORE THEN best.idx ELSE None

\* faulty variant: nothing expires
cleanup_expired_keeps(det, now) == det

\* MoveDetector::cleanup_expired at Instant `now`
cleanup_expired(det, now) ==
    [det EXCEPT
       !.pending_deletes =
           SelectSeq(@, LAMBDA e : now - e.ts <= det.correlation_window),
       !.recent_moves =
           SelectSeq(@, LAMBDA mv : now - mv.timestamp <= det.correlation_window)]

\* faulty variant: an earlier entry for the path stays in the queue
record_delete_keeps_old(det, path, is_directory, now) ==
    LET d1 == cleanup_expired(det, now)
    IN [d1 EXCEPT !.pending_deletes =
           KeepLast(Append(@, [path |-> path, ts |-> now,
                               is_directory |-> is_directory]), d1.max_pending)]

\* MoveDetector::record_delete at Instant `now`
record_delete(det, path, is_directory, now) ==
    LET d1 == cleanup_expired(det, now)
        kept == SelectSeq(d1.pending_deletes, LAMBDA e : e.path # path)
    IN [d1 EXCEPT !.pending_deletes =
           KeepLast(Append(kept, [path |-> path, ts |-> now,
                                  is_directory |-> is_directory]), d1.max_pending)]

\* HashMap::insert on the move map, a set of <<old, new>> pairs
map_insert(map, k, v) == {kv \in map : kv[1] # k} \cup {<<k, v>>}

\* MoveDetector::get_new_path
get_new_path(det, old_path) ==
    IF \E kv \in det.move_map : kv[1] = old_path
    THEN Some((CHOOSE kv \in det.move_map : kv[1] = old_path)[2])
    ELSE None

\* VecDeque::remove(idx)
remove_at(q, idx) == SubSeq(q, 1, idx - 1) \o SubSeq(q, idx + 1, Len(q))

\* MoveDetector::match_create at Instant `now`
match_create(det, path, is_directory, now) ==
    LET d1 == cleanup_expired(det, now)
        best_match == find_best_match(d1, path, is_directory)
    IN IF ~best_match.some THEN [det |-> d1, ret |-> None]
       ELSE LET old_path == d1.pending_deletes[best_match.val].path
                move_event == [from |-> old_path, to |-> path,
                               is_directory |-> is_directory, timestamp |-> now]
            IN [det |-> [d1 EXCEPT
                           !.pending_deletes = remove_at(@, best_match.val),
                           !.move_map = map_insert(@, old_path, path),
                           !.recent_moves =
                               KeepLast(Append(@, move_event), MAX_RECENT)],
                ret |-> Some(move_event)]

----------------------------------------------------------------------------
(* Container: blend_file_reader/src/blend_file.rs *)

\* Dna::from_reader reads nothing and returns an empty catalog
Dna_from_reader(data, header) == [structs |-> {}, type_sizes |-> {}]

\* Dna::write_to_writer re-emits the catalog the Dna holds; a Dna holds
\* structs and type sizes only, and both are empty after from_reader
Dna_write_to_writer(dna) == <<>>

\* std::fs::File as held by the container: the position of the handle.
\* The bytes of the file are the variable `disk`.
File_open_rw == [pos |-> 0]

Zeros(n) == [i \in 1..n |-> 0]

File_set_len(bytes, n) ==
    IF n <= Len(bytes) THEN SubSeq(bytes, 1, n) ELSE bytes \o Zeros(n - Len(bytes))

\* faulty variant: the handle stays where the last write left it
File_seek_start_skip(f, n) == f

File_seek_start(f, n) == [f EXCEPT !.pos = n]

\* write_all at the handle's position; a write past the end leaves a hole
\* of zero bytes
File_write_all(bytes, f, buf) ==
    LET base == IF f.pos > Len(bytes) THEN bytes \o Zeros(f.pos - Len(bytes))
                ELSE bytes
    IN [bytes |-> SubSeq(base, 1, f.pos) \o buf
                  \o SubSeq(base, f.pos + Len(buf) + 1, Len(base)),
        file  |-> [f EXCEPT !.pos = f.pos + Len(buf)]]

\* the path every container of the model is opened on
PATH == "scene.blend"

\* the body shared by BlendFile::open and BlendFile::open_read_write
ParseFile(file, handle) ==
    LET data == decompress_if_needed(file)
    IN IF ~data.ok THEN data
       ELSE LET header == Header_from_reader(data.val)
            IN IF ~header.ok THEN header
               ELSE LET dir == ParseBlocks(data.val, HEADER_LEN, header.val)
                    IN IF ~dir.ok THEN dir
                       ELSE Ok([path   |-> PATH,
                                header |-> header.val,
                                dna    |-> Dna_from_reader(data.val, header.val),
                                blocks |-> dir.blocks,
                                mmap   |-> None,
                                file   |-> handle])

open(file) == ParseFile(file, None)
open_read_write(file) == ParseFile(file, Some(File_open_rw))

\* the image BlendFile::save builds in memory
SaveImage(c) ==
    Header_write_to_writer(c.header)
    \o Concat([i \in 1..Len(c.blocks) |-> Block_write_to_writer(c.blocks[i], c.header)])
    \o Dna_write_to_writer(c.dna)

\* the step of BlendFile::save that returns early through `?`: a write
\* into the buffer, set_len, seek or write_all; "none" when all succeed
SaveFaults == {"none", "serialize", "set_len", "seek", "write"}

\* how many bytes of the image a failing write_all has put into the file
WriteCuts == {HEADER_LEN}

\* faulty variant: without a handle, the file is reopened for writing
save_without_handle_check(c, bytes, fault, cut) ==
    LET written == File_write_all(File_set_len(bytes, 0), File_open_rw, SaveImage(c))
    IN [res |-> "ok", bytes |-> written.bytes, c |-> c]

\* faulty variant: the file is truncated before the image is built
save_truncates_first(c, bytes, fault, cut) ==
    IF ~c.file.some THEN [res |-> "err", bytes |-> bytes, c |-> c]
    ELSE IF fault = "set_len" THEN [res |-> "err", bytes |-> bytes, c |-> c]
    ELSE LET truncated == File_set_len(bytes, 0)
         IN IF fault \in {"serialize", "seek"}
            THEN [res |-> "err", bytes |-> truncated, c |-> c]
            ELSE LET image   == SaveImage(c)
                     sought  == File_seek_start(c.file.val, 0)
                     part    == IF fault = "write"
                                THEN SubSeq(image, 1, Min(cut, Len(image)))
                                ELSE image
                     written == File_write_all(truncated, sought, part)
                 IN [res |-> IF fault = "write" THEN "err" ELSE "ok",
                     bytes |-> written.bytes,
                     c |-> [c EXCEPT !.file = Some(written.file)]]

\* BlendFile::save on container c with the file holding `bytes`; `fault`
\* is the step that fails, and a failing write_all has written `cut` bytes
save(c, bytes, fault, cut) ==
    IF ~c.file.some THEN [res |-> "err", bytes |-> bytes, c |-> c]
    ELSE IF fault = "serialize" THEN [res |-> "err", bytes |-> bytes, c |-> c]
    ELSE LET image == SaveImage(c)
         IN IF fault = "set_len" THEN [res |-> "err", bytes |-> bytes, c |-> c]
            ELSE LET truncated == File_set_len(bytes, 0)
                 IN IF fault = "seek"
                    THEN [res |-> "err", bytes |-> truncated, c |-> c]
                    ELSE LET sought  == File_seek_start(c.file.val, 0)
                             part    == IF fault = "write"
                                        THEN SubSeq(image, 1, Min(cut, Len(image)))
                                        ELSE image
                             written == File_write_all(truncated, sought, part)
                         IN [res |-> IF fault = "write" THEN "err" ELSE "ok",
                             bytes |-> written.bytes,
                             c |-> [c EXCEPT !.file = Some(written.file)]]

\* faulty variant: the mapped view is released, the handle is kept
close_keeps_file(c) == [c EXCEPT !.mmap = None]

\* BlendFile::close
close(c) == [c EXCEPT !.mmap = None, !.file = None]

\* faulty variant: the filter compares the first byte of the code only
get_blocks_by_type_first_byte(c, code) ==
    Ok(SelectSeq(c.blocks, LAMBDA b : b.code[1] = code[1]))

\* BlendFile::get_blocks_by_type: the blocks b, in directory order, with
\* b.code[..code.len()] == code
get_blocks_by_type(c, code) ==
    Ok(SelectSeq(c.blocks, LAMBDA b : SubSeq(b.code, 1, Len(code)) = code))

\* BlendFile::get_blocks_by_type_mut: the same filter over iter_mut()
get_blocks_by_type_mut(c, code) ==
    Ok(SelectSeq(c.blocks, LAMBDA b : SubSeq(b.code, 1, Len(code)) = code))

get_library_blocks(c) == get_blocks_by_type(c, <<76, 73>>)            \* b"LI"
get_library_blocks_mut(c) == get_blocks_by_type_mut(c, <<76, 73>>)
get_image_blocks(c) == get_blocks_by_type(c, <<73, 77>>)              \* b"IM"
get_image_blocks_mut(c) == get_blocks_by_type_mut(c, <<73, 77>>)
get_sound_blocks(c) == get_blocks_by_type(c, <<83, 79>>)              \* b"SO"
get_sound_blocks_mut(c) == get_blocks_by_type_mut(c, <<83, 79>>)
get_movie_clip_blocks(c) == get_blocks_by_type(c, <<77, 67>>)         \* b"MC"
get_movie_clip_blocks_mut(c) == get_blocks_by_type_mut(c, <<77, 67>>)
get_mesh_blocks(c) == get_blocks_by_type(c, <<77, 69>>)               \* b"ME"
get_mesh_blocks_mut(c) == get_blocks_by_type_mut(c, <<77, 69>>)
get_material_blocks(c) == get_blocks_by_type(c, <<77, 65>>)           \* b"MA"
get_material_blocks_mut(c) == get_blocks_by_type_mut(c, <<77, 65>>)
get_texture_blocks(c) == get_blocks_by_type(c, <<84, 69>>)            \* b"TE"
get_texture_blocks_mut(c) == get_blocks_by_type_mut(c, <<84, 69>>)

----------------------------------------------------------------------------
(* Inputs of the codec harnesses *)

MaxPayload == 2       \* longest payload of a generated block
MaxBlocks == 2        \* most block records in a generated stream

HeaderVariants ==
    {[magic |-> MAGIC, pointer_size |-> p, endianness |-> e, version |-> 279] :
        p \in {"Bits32", "Bits64"}, e \in {"Little", "Big"}}

\* Header inputs: 12 bytes over small alphabets, and every prefix of them
HeaderInputs ==
    LET Magics   == {MAGIC, <<66, 76, 69, 78, 68, 69, 114>>,
                     <<73, 78, 86, 65, 76, 73, 68>>}
        PtrBytes == {95, 45, 120}
        EndBytes == {118, 86, 0}
        VerBytes == {48, 50, 55, 57, 43, 45, 32, 97, 200}
        Full     == {m \o <<p, e>> \o v :
                        m \in Magics, p \in PtrBytes, e \in EndBytes,
                        v \in [1..3 -> VerBytes]}
        Cut      == {SubSeq(MAGIC \o <<45, 118, 50, 55, 57>>, 1, n) : n \in 0..11}
        Bad      == {SubSeq(m \o <<45, 118, 50, 55, 57, 69, 78, 68, 66>>, 1, n) :
                        m \in Magics \ {MAGIC}, n \in 7..16}
        Short    == {MAGIC \o <<120>>, MAGIC \o <<45, 0>>, MAGIC \o <<95, 118>>}
    IN Full \cup Cut \cup Bad \cup Short

\* A raw block record as it lies in a stream: each field is the bytes on
\* disk, whatever they decode to.  addr holds 8 bytes; a 32-bit stream
\* carries the first 4.
CodeLI == <<76, 73, 0, 0>>
CodeDNA2 == <<68, 78, 65, 50>>
PayloadOf(n) == [i \in 1..n |-> 64 + i]

RawRec(code, sz, addr, idx, cnt, payload) ==
    [code |-> code, sz |-> sz, addr |-> addr, idx |-> idx, cnt |-> cnt,
     payload |-> payload]

RawRecords ==
    LET Z  == <<0, 0, 0, 0>>
        A1 == <<0, 16, 0, 0, 0, 0, 0, 0>>
        A2 == <<1, 2, 3, 4, 5, 6, 7, 8>>
        I1 == <<0, 0, 0, 0>>
        C1 == <<1, 0, 0, 0>>
        I2 == <<1, 2, 0, 0>>
        C2 == <<0, 0, 3, 0>>
    IN  {RawRec(c, Z, A1, I1, C1, <<>>) : c \in {CodeLI, DNA1, CodeDNA2}}
        \cup UNION {{RawRec(CodeLI, s, A1, I1, C1, PayloadOf(n)) :
                        s \in {<<n, 0, 0, 0>>, <<0, 0, 0, n>>}} : n \in 0..MaxPayload}
        \cup {RawRec(CodeLI, s, A1, I1, C1, <<>>) :
                 s \in {<<MaxPayload, 0, 0, 0>>, <<0, 0, 0, MaxPayload>>}}
        \cup {RawRec(CodeLI, Z, A1, I1, C1, PayloadOf(MaxPayload))}
        \cup {RawRec(CodeLI, Z, A2, I2, C2, <<>>), RawRec(CodeLI, Z, A2, I1, C1, <<>>)}

RecBytes(P, r) ==
    r.code \o r.sz \o SubSeq(r.addr, 1, P) \o r.idx \o r.cnt \o r.payload

\* A generated stream: up to MaxBlocks records, the last one short of its
\* final `cut` bytes (cut = 0: the stream ends at a record boundary)
RawStreams(P) ==
    {[recs |-> <<>>, cut |-> 0]}
    \cup UNION {{[recs |-> rs, cut |-> c] :
                    c \in 0..(Len(RecBytes(P, rs[Len(rs)])) - 1)} :
                rs \in SeqsUpTo(RawRecords, MaxBlocks) \ {<<>>}}

StreamBytes(P, g) ==
    LET all == Concat([i \in 1..Len(g.recs) |-> RecBytes(P, g.recs[i])])
    IN SubSeq(all, 1, Len(all) - g.cut)

\* Block values handed to Block::write_to_writer
BlockValues ==
    {[code |-> c, size |-> sz, old_memory_address |-> a, sdna_index |-> ic[1],
      count |-> ic[2], data_offset |-> 0, data |-> PayloadOf(n)] :
        c \in {CodeLI, DNA1}, sz \in 0..MaxPayload, n \in 0..MaxPayload,
        a \in {[hi |-> 0, lo |-> 4096], [hi |-> 0, lo |-> 16909060],
               [hi |-> 1, lo |-> 5]},
        ic \in {<<0, 1>>, <<513, 196608>>}}

----------------------------------------------------------------------------
(* Harness state that a specification leaves idle *)

HeaderIdle ==
    /\ h_pc = "idle" /\ h_in = <<>> /\ h_res = Err("IoError", <<>>) /\ h_out = <<>>
    /\ h_open = "none"

IterIdle ==
    /\ b_hdr = CHOOSE h \in HeaderVariants : TRUE
    /\ b_recs = [recs |-> <<>>, cut |-> 0]
    /\ b_stream = <<>> /\ b_pos = 0 /\ b_finished = TRUE /\ b_items = <<>>
    /\ b_last = "idle" /\ b_out = <<>> /\ b_emitted = 0

WriteReadIdle ==
    /\ w_pc = "idle"
    /\ w_hdr = CHOOSE h \in HeaderVariants : TRUE
    /\ w_block = CHOOSE b \in BlockValues : TRUE
    /\ w_bytes = <<>>
    /\ w_back = [kind |-> "None", eof |-> TRUE, at |-> 0]

ContainerIdle ==
    /\ disk = <<>> /\ bf = None /\ lastOp = "idle" /\ lastRes = "idle"
    /\ fresh = None /\ saved = None /\ loaded = None /\ edits = 0
    /\ s_fault = "idle"

QueryIdle ==
    /\ q_c = None /\ q_code = <<>> /\ q_ro = None /\ q_mut = None /\ q_cat = None

CodecIdle ==
    /\ z_file = <<>> /\ z_made = None /\ z_data = None /\ z_open = None
    /\ z_plain = None

MoveIdle ==
    /\ m_window = 0 /\ m_now = 0 /\ m_pending = <<>> /\ m_map = {} /\ m_recent = <<>>
    /\ m_last = None /\ m_stamp = <<>> /\ m_recorded = <<>> /\ m_moved = <<>>
    /\ m_calls = 0

LinkIdle ==
    /\ l_pc = "idle" /\ l_file = <<>> /\ l_links = <<>> /\ l_res = None

StringIdle ==
    /\ s_pc = "idle" /\ s_str = <<>> /\ s_max = 0 /\ s_init = <<>> /\ s_buf = <<>>

OthersIdle == MoveIdle /\ LinkIdle /\ StringIdle

FieldIdle ==
    /\ f_pc = "idle" /\ f_block = None /\ f_prev = None /\ f_val = <<>>
    /\ f_count = 0 /\ f_got = None

----------------------------------------------------------------------------
(* Header codec harness: parse an input, then serialize what was parsed *)

InitHeader ==
    /\ h_pc = "input"
    /\ h_in \in HeaderInputs
    /\ h_res = Err("IoError", <<>>)
    /\ h_out = <<>>
    /\ h_open = "none"
    /\ IterIdle /\ WriteReadIdle /\ ContainerIdle /\ QueryIdle /\ FieldIdle /\ CodecIdle
    /\ OthersIdle

HeaderParse ==
    /\ h_pc = "input"
    /\ h_res' = Header_from_reader(h_in)
    /\ h_pc' = "parsed"
    /\ UNCHANGED <<h_in, h_out, h_open, bvars, wvars, cvars, qvars, fvars, zvars, xvars>>

HeaderSerialize ==
    /\ h_pc = "parsed"
    /\ h_res.ok
    /\ h_out' = Header_write_to_writer(h_res.val)
    /\ h_pc' = "written"
    /\ UNCHANGED <<h_in, h_res, h_open, bvars, wvars, cvars, qvars, fvars, zvars, xvars>>

\* BlendFile::open on a file holding the input bytes
HeaderOpen ==
    /\ h_pc # "idle"
    /\ h_open = "none"
    /\ h_open' = IF open(h_in).ok THEN "ok" ELSE "err"
    /\ UNCHANGED <<h_pc, h_in, h_res, h_out, bvars, wvars, cvars, qvars, fvars, zvars, xvars>>

\* Header values a caller builds: the fields are public
HeaderValues ==
    {[magic |-> MAGIC, pointer_size |-> p, endianness |-> e, version |-> v] :
        p \in {"Bits32", "Bits64"}, e \in {"Little", "Big"},
        v \in {0, 7, 42, 279, 999, 1000, 12345}}

\* Header::write_to_writer on a built Header
HeaderWrite ==
    /\ h_pc = "input"
    /\ \E h \in HeaderValues :
          /\ h_res' = Ok(h)
          /\ h_out' = Header_write_to_writer(h)
    /\ h_pc' = "emitted"
    /\ UNCHANGED <<h_in, h_open, bvars, wvars, cvars, qvars, fvars, zvars, xvars>>

NextHeader == HeaderParse \/ HeaderSerialize \/ HeaderOpen \/ HeaderWrite

SpecHeader == InitHeader /\ [][NextHeader]_vars

----------------------------------------------------------------------------
(* Block iterator harness: BlockIterator over a generated stream, each     *)
(* yielded block re-emitted in order with Block::write_to_writer           *)

InitIter ==
    /\ b_hdr \in HeaderVariants
    /\ b_recs \in RawStreams(PointerSize_bytes(b_hdr))
    /\ b_stream = StreamBytes(PointerSize_bytes(b_hdr), b_recs)
    /\ b_pos = 0
    /\ b_finished = FALSE
    /\ b_items = <<>>
    /\ b_last = "new"
    /\ b_out = <<>>
    /\ b_emitted = 0
    /\ HeaderIdle /\ WriteReadIdle /\ ContainerIdle /\ QueryIdle /\ FieldIdle /\ CodecIdle
    /\ OthersIdle

\* faulty variant: an error does not finish the iterator
BlockIterator_next_on_after_error ==
    /\ IF b_finished
       THEN /\ b_last' = "None"
            /\ UNCHANGED <<b_pos, b_finished, b_items>>
       ELSE LET r == Block_from_reader(b_stream, b_pos, b_hdr)
            IN CASE r.kind = "Block" ->
                      /\ b_items' = Append(b_items, [kind |-> "Ok", block |-> r.block])
                      /\ b_pos' = r.at
                      /\ b_last' = "Block"
                      /\ UNCHANGED b_finished
                 [] r.kind = "None" ->
                      /\ b_finished' = TRUE
                      /\ b_last' = "None"
                      /\ b_pos' \in (IF r.eof THEN CursorAfterFailure(b_stream, r.at)
                                              ELSE {r.at})
                      /\ UNCHANGED b_items
                 [] r.kind = "Err" ->
                      /\ b_items' = Append(b_items, [kind |-> "Err", err |-> r.err])
                      /\ b_last' = "Err"
                      /\ b_pos' \in CursorAfterFailure(b_stream, r.at)
                      /\ UNCHANGED b_finished
    /\ UNCHANGED <<b_hdr, b_recs, b_stream, b_out, b_emitted, hvars, wvars, cvars,
                   qvars, fvars, zvars, xvars>>

\* BlockIterator::next
BlockIterator_next ==
    /\ IF b_finished
       THEN /\ b_last' = "None"
            /\ UNCHANGED <<b_pos, b_finished, b_items>>
       ELSE LET r == Block_from_reader(b_stream, b_pos, b_hdr)
            IN CASE r.kind = "Block" ->
                      /\ b_items' = Append(b_items, [kind |-> "Ok", block |-> r.block])
                      /\ b_pos' = r.at
                      /\ b_last' = "Block"
                      /\ UNCHANGED b_finished
                 [] r.kind = "None" ->
                      /\ b_finished' = TRUE
                      /\ b_last' = "None"
                      /\ b_pos' \in (IF r.eof THEN CursorAfterFailure(b_stream, r.at)
                                              ELSE {r.at})
                      /\ UNCHANGED b_items
                 [] r.kind = "Err" ->
                      /\ b_finished' = TRUE
                      /\ b_items' = Append(b_items, [kind |-> "Err", err |-> r.err])
                      /\ b_last' = "Err"
                      /\ b_pos' \in CursorAfterFailure(b_stream, r.at)
    /\ UNCHANGED <<b_hdr, b_recs, b_stream, b_out, b_emitted, hvars, wvars, cvars,
                   qvars, fvars, zvars, xvars>>

\* the caller re-emits the next yielded block
EmitBlock ==
    /\ b_emitted < Len(b_items)
    /\ b_items[b_emitted + 1].kind = "Ok"
    /\ b_out' = b_out \o Block_write_to_writer(b_items[b_emitted + 1].block, b_hdr)
    /\ b_emitted' = b_emitted + 1
    /\ UNCHANGED <<b_hdr, b_recs, b_stream, b_pos, b_finished, b_items, b_last,
                   hvars, wvars, cvars, qvars, fvars, zvars, xvars>>

NextIter == BlockIterator_next \/ EmitBlock

SpecIter == InitIter /\ [][NextIter]_vars

----------------------------------------------------------------------------
(* Block write/read harness: a Block value serialized, then parsed back *)

InitWriteRead ==
    /\ w_pc = "value"
    /\ w_hdr \in HeaderVariants
    /\ w_block \in BlockValues
    /\ w_bytes = <<>>
    /\ w_back = [kind |-> "None", eof |-> TRUE, at |-> 0]
    /\ HeaderIdle /\ IterIdle /\ ContainerIdle /\ QueryIdle /\ FieldIdle /\ CodecIdle
    /\ OthersIdle

WriteBlock ==
    /\ w_pc = "value"
    /\ w_bytes' = Block_write_to_writer(w_block, w_hdr)
    /\ w_pc' = "written"
    /\ UNCHANGED <<w_hdr, w_block, w_back, hvars, bvars, cvars, qvars, fvars, zvars, xvars>>

ReadBlock ==
    /\ w_pc = "written"
    /\ w_back' = Block_from_reader(w_bytes, 0, w_hdr)
    /\ w_pc' = "read"
    /\ UNCHANGED <<w_hdr, w_block, w_bytes, hvars, bvars, cvars, qvars, fvars, zvars, xvars>>

NextWriteRead == WriteBlock \/ ReadBlock

SpecWriteRead == InitWriteRead /\ [][NextWriteRead]_vars

----------------------------------------------------------------------------
(* Container: a file on disk, one container on it, and a second, fresh    *)
(* open() of the same path                                                *)

FieldPayload == 5     \* payload length of the generated library blocks
MaxEdits == 2         \* most field-accessor calls in one run

CodeOB == <<79, 66, 0, 0>>
CATALOG == DNA1 \o <<83, 68, 78, 65, 1>>

\* header bytes of the generated files
ImageHeaders ==
    {MAGIC \o <<p, e>> \o v : p \in {95, 45}, e \in {118, 86}, v \in {<<50, 55, 57>>}}
    \cup {MAGIC \o <<45, 118, 43, 50, 55>>}

\* a well-formed raw record in byte order e
ImageRec(e, code, payload) ==
    RawRec(code,
           IF e = 118 THEN <<Len(payload), 0, 0, 0>> ELSE <<0, 0, 0, Len(payload)>>,
           <<0, 16, 0, 0, 0, 0, 0, 0>>, <<0, 0, 0, 0>>, <<1, 0, 0, 0>>, payload)

ImageDirs(e) ==
    LET li == ImageRec(e, CodeLI, PayloadOf(FieldPayload))
        ob == ImageRec(e, CodeOB, PayloadOf(FieldPayload - 2))
    IN {<<>>, <<li>>, <<li, ob>>}

\* uncompressed file images: header, records, then nothing, the catalog,
\* or a last record short of its final byte
RawImages ==
    UNION {UNION {
        LET P    == IF h[8] = 95 THEN 4 ELSE 8
            body == Concat([i \in 1..Len(d) |-> RecBytes(P, d[i])])
        IN {h \o body, h \o body \o CATALOG,
            h \o SubSeq(body, 1, Len(body) - 1)}
        : d \in ImageDirs(h[9])} : h \in ImageHeaders}

FileImages ==
    RawImages
    \cup {Compress(sig, img) :
            sig \in {<<120, 156>>, ZSTD_SIG, GZIP_SIG},
            img \in {r \in RawImages : SubSeq(r, 8, 12) = <<45, 118, 50, 55, 57>>}}

StringValues ==
    {<<>>, <<47, 47, 110>>,
     [i \in 1..FieldPayload |-> 96 + i], [i \in 1..(FieldPayload + 1) |-> 96 + i]}

F32_2 == <<64, 0, 0, 0>>       \* 2.0
F32_10 == <<65, 32, 0, 0>>     \* 10.0
FloatValues == {<<F32_10>>, <<F32_2, F32_10>>}

\* the terminator tag and everything after it in a parsed image
CatalogOf(file) ==
    LET data == decompress_if_needed(file).val
        dir  == ParseBlocks(data, HEADER_LEN, Header_from_reader(data).val)
    IN IF dir.eof THEN <<>> ELSE SubSeq(data, dir.stop + 1, Len(data))

Init ==
    /\ disk \in FileImages
    /\ bf = None
    /\ lastOp = "new"
    /\ lastRes = "ok"
    /\ fresh = None
    /\ saved = None
    /\ loaded = None
    /\ edits = 0
    /\ s_fault = "none"
    /\ HeaderIdle /\ IterIdle /\ WriteReadIdle /\ QueryIdle /\ FieldIdle /\ CodecIdle
    /\ OthersIdle

\* bf = BlendFile::open(path) or BlendFile::open_read_write(path)
Opened(r, op) ==
    /\ bf' = IF r.ok THEN Some(r.val) ELSE None
    /\ loaded' = IF r.ok
                  THEN Some([catalog    |-> CatalogOf(disk),
                             by         |-> op,
                             compressed |-> decompress_if_needed(disk).val # disk])
                  ELSE None
    /\ lastOp' = op
    /\ lastRes' = IF r.ok THEN "ok" ELSE "err"
    /\ s_fault' = "none"
    /\ UNCHANGED <<disk, fresh, saved, edits, hvars, bvars, wvars, qvars, fvars, zvars, xvars>>

Open == Opened(open(disk), "open")

OpenReadWrite == Opened(open_read_write(disk), "open_read_write")

\* a second caller: BlendFile::open(path) into a container of its own
FreshOpen ==
    /\ fresh' = Some(open(disk))
    /\ lastOp' = "fresh_open"
    /\ lastRes' = IF open(disk).ok THEN "ok" ELSE "err"
    /\ s_fault' = "none"
    /\ UNCHANGED <<disk, bf, saved, loaded, edits, hvars, bvars, wvars, qvars,
                   fvars, zvars, xvars>>

SetStringField ==
    /\ bf.some
    /\ edits < MaxEdits
    /\ \E i \in 1..Len(bf.val.blocks), value \in StringValues :
          bf' = Some([bf.val EXCEPT !.blocks[i] = set_string_field(@, value)])
    /\ edits' = edits + 1
    /\ lastOp' = "set_string_field"
    /\ lastRes' = "ok"
    /\ s_fault' = "none"
    /\ UNCHANGED <<disk, fresh, saved, loaded, hvars, bvars, wvars, qvars, fvars, zvars, xvars>>

SetFloatArrayField ==
    /\ bf.some
    /\ edits < MaxEdits
    /\ \E i \in 1..Len(bf.val.blocks), values \in FloatValues :
          bf' = Some([bf.val EXCEPT !.blocks[i] = set_float_array_field(@, values)])
    /\ edits' = edits + 1
    /\ lastOp' = "set_float_array_field"
    /\ lastRes' = "ok"
    /\ s_fault' = "none"
    /\ UNCHANGED <<disk, fresh, saved, loaded, hvars, bvars, wvars, qvars, fvars, zvars, xvars>>

Save ==
    /\ bf.some
    /\ \E f \in SaveFaults, cut \in WriteCuts :
          /\ ~bf.val.file.some => f = "none"
          /\ LET r == save(bf.val, disk, f, cut)
             IN /\ disk' = r.bytes
                /\ bf' = Some(r.c)
                /\ lastRes' = r.res
                /\ saved' = IF r.res = "ok"
                             THEN Some([header |-> bf.val.header,
                                        blocks |-> bf.val.blocks])
                             ELSE IF r.bytes = disk THEN saved ELSE None
                /\ fresh' = IF r.bytes = disk /\ r.res # "ok" THEN fresh ELSE None
          /\ s_fault' = f
    /\ lastOp' = "save"
    /\ UNCHANGED <<loaded, edits, hvars, bvars, wvars, qvars, fvars, zvars, xvars>>

Close ==
    /\ bf.some
    /\ bf' = Some(close(bf.val))
    /\ lastOp' = "close"
    /\ lastRes' = "ok"
    /\ s_fault' = "none"
    /\ UNCHANGED <<disk, fresh, saved, loaded, edits, hvars, bvars, wvars, qvars,
                   fvars, zvars, xvars>>

Next ==
    \/ Open \/ OpenReadWrite \/ FreshOpen
    \/ SetStringField \/ SetFloatArrayField
    \/ Save \/ Close

Spec == Init /\ [][Next]_vars

----------------------------------------------------------------------------
(* Field accessor harness: one block, a set, then a get *)

MaxFieldLen == 9      \* longest payload of an edited block
MaxChars == 2         \* most characters in a string value
MaxFloats == 3        \* most values in a float list
MaxCount == 4         \* largest count asked of get_float_array_field

\* characters of 1 to 4 bytes: 'a', '/', NUL, U+00E9, U+20AC, U+1F600
FieldChars ==
    {<<97>>, <<47>>, <<0>>, <<195, 169>>, <<226, 130, 172>>, <<240, 159, 152, 128>>}

FieldStrings == SeqsUpTo(FieldChars, MaxChars)

FieldFloats == SeqsUpTo({F32_2, F32_10, F32_ZERO}, MaxFloats)

\* blocks with a payload of 0..MaxFieldLen bytes, none of them NUL
FieldBlocks ==
    {[code |-> CodeOB, size |-> n, old_memory_address |-> [hi |-> 0, lo |-> 4096],
      sdna_index |-> 0, count |-> 1, data_offset |-> HEADER_LEN + 24 + n,
      data |-> [i \in 1..n |-> fill + i]] : n \in 0..MaxFieldLen, fill \in {64, 200}}

InitField ==
    /\ f_pc = "start"
    /\ f_block \in {Some(b) : b \in FieldBlocks}
    /\ f_prev = None /\ f_val = <<>> /\ f_count = 0 /\ f_got = None
    /\ HeaderIdle /\ IterIdle /\ WriteReadIdle /\ ContainerIdle /\ QueryIdle /\ CodecIdle
    /\ OthersIdle

FieldSetString ==
    /\ f_pc = "start"
    /\ \E str \in FieldStrings :
          /\ f_val' = str
          /\ f_block' = Some(set_string_field(f_block.val, as_bytes(str)))
    /\ f_prev' = f_block
    /\ f_pc' = "set_string"
    /\ UNCHANGED <<f_count, f_got, hvars, bvars, wvars, cvars, qvars, zvars, xvars>>

FieldGetString ==
    /\ f_pc = "set_string"
    /\ f_got' = Some(get_string_field(f_block.val))
    /\ f_pc' = "got_string"
    /\ UNCHANGED <<f_block, f_prev, f_val, f_count, hvars, bvars, wvars, cvars, qvars, zvars,
                   xvars>>

FieldSetFloats ==
    /\ f_pc = "start"
    /\ \E values \in FieldFloats :
          /\ f_val' = values
          /\ f_block' = Some(set_float_array_field(f_block.val, values))
    /\ f_prev' = f_block
    /\ f_pc' = "set_floats"
    /\ UNCHANGED <<f_count, f_got, hvars, bvars, wvars, cvars, qvars, zvars, xvars>>

FieldGetFloats ==
    /\ f_pc = "set_floats"
    /\ \E count \in 0..MaxCount :
          /\ f_count' = count
          /\ f_got' = Some(get_float_array_field(f_block.val, count))
    /\ f_pc' = "got_floats"
    /\ UNCHANGED <<f_block, f_prev, f_val, hvars, bvars, wvars, cvars, qvars, zvars, xvars>>

NextField == FieldSetString \/ FieldGetString \/ FieldSetFloats \/ FieldGetFloats

SpecField == InitField /\ [][NextField]_vars

----------------------------------------------------------------------------
(* Lookup-by-type harness: a directory, a prefix, and the queries on it *)

MaxDir == 2           \* most blocks in a queried directory

CategoryNames == {"library", "image", "sound", "movie_clip", "mesh",
                  "material", "texture"}

\* type codes of directory blocks: the seven categories and a 4-letter code
QueryCodes ==
    {<<76, 73, 0, 0>>, <<73, 77, 0, 0>>, <<83, 79, 0, 0>>, <<77, 67, 0, 0>>,
     <<77, 69, 0, 0>>, <<77, 65, 0, 0>>, <<84, 69, 0, 0>>, <<77, 69, 83, 72>>}

\* prefixes of 1 to 4 bytes
QueryPrefixes ==
    {<<76>>, <<77>>, <<76, 73>>, <<77, 69>>, <<79, 66>>, <<77, 69, 0>>,
     <<77, 69, 83>>, <<77, 69, 83, 72>>, <<76, 73, 0, 0>>}

\* block i of a directory holds the one payload byte i, so that equal codes
\* at different places are different blocks
QueryBlock(code, i) ==
    [code |-> code, size |-> 1, old_memory_address |-> [hi |-> 0, lo |-> 4096 * i],
     sdna_index |-> 0, count |-> 1, data_offset |-> HEADER_LEN + 25 * i,
     data |-> <<i>>]

QueryContainers ==
    {[path   |-> PATH,
      header |-> CHOOSE h \in HeaderVariants :
                    h.pointer_size = "Bits64" /\ h.endianness = "Little",
      dna    |-> [structs |-> {}, type_sizes |-> {}],
      blocks |-> [i \in 1..Len(codes) |-> QueryBlock(codes[i], i)],
      mmap   |-> None,
      file   |-> None] : codes \in SeqsUpTo(QueryCodes, MaxDir)}

InitQuery ==
    /\ q_c \in {Some(c) : c \in QueryContainers}
    /\ q_code \in QueryPrefixes
    /\ q_ro = None /\ q_mut = None /\ q_cat = None
    /\ HeaderIdle /\ IterIdle /\ WriteReadIdle /\ ContainerIdle /\ FieldIdle /\ CodecIdle
    /\ OthersIdle

GetBlocksByType ==
    /\ q_c.some /\ q_ro = None
    /\ q_ro' = Some(get_blocks_by_type(q_c.val, q_code))
    /\ UNCHANGED <<q_c, q_code, q_mut, q_cat, hvars, bvars, wvars, cvars, fvars, zvars, xvars>>

GetBlocksByTypeMut ==
    /\ q_c.some /\ q_mut = None
    /\ q_mut' = Some(get_blocks_by_type_mut(q_c.val, q_code))
    /\ UNCHANGED <<q_c, q_code, q_ro, q_cat, hvars, bvars, wvars, cvars, fvars, zvars, xvars>>

CategoryQuery(name, mutable) ==
    LET c == q_c.val
        r == CASE name = "library" ->
                    IF mutable THEN get_library_blocks_mut(c) ELSE get_library_blocks(c)
               [] name = "image" ->
                    IF mutable THEN get_image_blocks_mut(c) ELSE get_image_blocks(c)
               [] name = "sound" ->
                    IF mutable THEN get_sound_blocks_mut(c) ELSE get_sound_blocks(c)
               [] name = "movie_clip" ->
                    IF mutable THEN get_movie_clip_blocks_mut(c)
                    ELSE get_movie_clip_blocks(c)
               [] name = "mesh" ->
                    IF mutable THEN get_mesh_blocks_mut(c) ELSE get_mesh_blocks(c)
               [] name = "material" ->
                    IF mutable THEN get_material_blocks_mut(c)
                    ELSE get_material_blocks(c)
               [] name = "texture" ->
                    IF mutable THEN get_texture_blocks_mut(c) ELSE get_texture_blocks(c)
    IN /\ q_c.some /\ q_cat = None
       /\ q_cat' = Some([name |-> name, mutable |-> mutable, res |-> r])
       /\ UNCHANGED <<q_c, q_code, q_ro, q_mut, hvars, bvars, wvars, cvars, fvars, zvars, xvars>>

NextQuery ==
    \/ GetBlocksByType
    \/ GetBlocksByTypeMut
    \/ \E name \in CategoryNames, mutable \in BOOLEAN : CategoryQuery(name, mutable)

SpecQuery == InitQuery /\ [][NextQuery]_vars

----------------------------------------------------------------------------
(* Codec harness: a file made from an image, decompress_if_needed and     *)
(* open on it, and open on the image itself                               *)

Signatures == ZLIB_SIGS \cup {ZSTD_SIG, GZIP_SIG}

\* files that are no images: shorter than the sniffed prefix, or opening
\* with bytes that are near a signature or are one by accident
OddFiles ==
    {<<>>, <<66, 76, 69>>, <<120, 156, 1>>,
     <<120, 94, 1, 2, 3, 3>>,                     \* zlib header 78 5E
     <<31, 139, 8, 8, 1, 2, 2>>,                  \* gzip, flags byte 08
     <<31, 139, 9, 0, 1, 2, 2>>,
     <<40, 181, 47, 254, 1, 2, 2>>,
     <<40, 181, 47>> \o <<253>>,                  \* a signature and nothing else
     <<120, 156, 1, 2, 3>>}                       \* 78 9C by accident

\* how a file was made: the image, the signature it was compressed under
\* (none: stored as it is), and whether its check byte was damaged
MadeFiles ==
    {[raw |-> r, sig |-> <<>>, damaged |-> FALSE] : r \in RawImages \cup OddFiles}
    \cup {[raw |-> r, sig |-> sig, damaged |-> d] :
             r \in RawImages, sig \in Signatures, d \in BOOLEAN}

FileOf(m) ==
    IF m.sig = <<>> THEN m.raw
    ELSE LET z == Compress(m.sig, m.raw)
         IN IF m.damaged
            THEN SubSeq(z, 1, Len(z) - 1) \o <<(z[Len(z)] + 1) % 256>>
            ELSE z

InitCodec ==
    /\ z_made \in {Some(m) : m \in MadeFiles}
    /\ z_file = FileOf(z_made.val)
    /\ z_data = None /\ z_open = None /\ z_plain = None
    /\ HeaderIdle /\ IterIdle /\ WriteReadIdle /\ ContainerIdle /\ QueryIdle
    /\ FieldIdle /\ OthersIdle

\* BlendFile::decompress_if_needed on the file
Decompress ==
    /\ z_made.some /\ z_data = None
    /\ z_data' = Some(decompress_if_needed(z_file))
    /\ UNCHANGED <<z_file, z_made, z_open, z_plain, hvars, bvars, wvars, cvars,
                   qvars, fvars, xvars>>

\* BlendFile::open on the file
OpenFile ==
    /\ z_made.some /\ z_open = None
    /\ z_open' = Some(open(z_file))
    /\ UNCHANGED <<z_file, z_made, z_data, z_plain, hvars, bvars, wvars, cvars,
                   qvars, fvars, xvars>>

\* BlendFile::open on a file that holds the image uncompressed
OpenPlain ==
    /\ z_made.some /\ z_plain = None
    /\ z_plain' = Some(open(z_made.val.raw))
    /\ UNCHANGED <<z_file, z_made, z_data, z_open, hvars, bvars, wvars, cvars,
                   qvars, fvars, xvars>>

NextCodec == Decompress \/ OpenFile \/ OpenPlain

SpecCodec == InitCodec /\ [][NextCodec]_vars

----------------------------------------------------------------------------
(* Move detector harness: record_delete and match_create calls over a clock *)

MaxTime == 3
MaxCalls == 4

\* the windows a detector is built with, in clock ticks
Windows == {1, 2}

Dir(name) == Normal(name, "")
P_old  == <<RootDir, Dir("test"), Normal("old", "txt")>>
P_new  == <<RootDir, Dir("test"), Normal("new", "txt")>>
P_lib  == <<RootDir, Dir("test"), Normal("a", "blend")>>
P_deep == <<RootDir, Dir("test"), Dir("sub"), Normal("new", "txt")>>
MovePaths == {P_old, P_new, P_lib, P_deep}

Det ==
    [pending_deletes |-> m_pending, correlation_window |-> m_window,
     move_map |-> m_map, recent_moves |-> m_recent, max_pending |-> MAX_PENDING]

InitMove ==
    /\ m_window \in Windows
    /\ m_now = 0
    /\ m_pending = MoveDetector_new(m_window).pending_deletes
    /\ m_map = MoveDetector_new(m_window).move_map
    /\ m_recent = MoveDetector_new(m_window).recent_moves
    /\ m_last = None
    /\ m_stamp = [p \in MovePaths |-> -1]
    /\ m_recorded = [p \in MovePaths |-> 0]
    /\ m_moved = [p \in MovePaths |-> 0]
    /\ m_calls = 0
    /\ HeaderIdle /\ IterIdle /\ WriteReadIdle /\ ContainerIdle /\ QueryIdle
    /\ FieldIdle /\ CodecIdle /\ LinkIdle /\ StringIdle

\* time passes between two calls
Tick ==
    /\ m_now < MaxTime
    /\ m_now' = m_now + 1
    /\ UNCHANGED <<m_window, m_pending, m_map, m_recent, m_last, m_stamp, m_recorded,
                   m_moved, m_calls>>
    /\ UNCHANGED <<hvars, bvars, wvars, cvars, qvars, fvars, zvars, lvars, svars>>

\* detector.record_delete(path, is_directory)
RecordDelete ==
    /\ m_calls < MaxCalls
    /\ \E path \in MovePaths, is_directory \in BOOLEAN :
          LET d == record_delete(Det, path, is_directory, m_now)
          IN /\ m_pending' = d.pending_deletes
             /\ m_map' = d.move_map
             /\ m_recent' = d.recent_moves
             /\ m_last' = Some([op |-> "record_delete", path |-> path,
                                is_directory |-> is_directory, ret |-> None])
             /\ m_stamp' = [m_stamp EXCEPT ![path] = m_now]
             /\ m_recorded' = [m_recorded EXCEPT ![path] = @ + 1]
    /\ m_calls' = m_calls + 1
    /\ UNCHANGED <<m_window, m_now, m_moved>>
    /\ UNCHANGED <<hvars, bvars, wvars, cvars, qvars, fvars, zvars, lvars, svars>>

\* detector.match_create(path, is_directory)
MatchCreate ==
    /\ m_calls < MaxCalls
    /\ \E path \in MovePaths, is_directory \in BOOLEAN :
          LET r == match_create(Det, path, is_directory, m_now)
          IN /\ m_pending' = r.det.pending_deletes
             /\ m_map' = r.det.move_map
             /\ m_recent' = r.det.recent_moves
             /\ m_last' = Some([op |-> "match_create", path |-> path,
                                is_directory |-> is_directory, ret |-> r.ret])
             /\ m_moved' = IF r.ret.some
                            THEN [m_moved EXCEPT ![r.ret.val.from] = @ + 1]
                            ELSE m_moved
    /\ m_calls' = m_calls + 1
    /\ UNCHANGED <<m_window, m_now, m_stamp, m_recorded>>
    /\ UNCHANGED <<hvars, bvars, wvars, cvars, qvars, fvars, zvars, lvars, svars>>

NextMove == Tick \/ RecordDelete \/ MatchCreate

SpecMove == InitMove /\ [][NextMove]_vars

----------------------------------------------------------------------------
(* String writer: src/dna_io.rs *)

\* the loop of write_string from character idx on: how many characters of
\* s are kept, `limit` being max_len - 1
RECURSIVE kept_chars(_, _, _, _)
kept_chars(s, idx, total, limit) ==
    IF idx > Len(s) THEN idx - 1
    ELSE IF total + Len(s[idx]) > limit THEN idx - 1
    ELSE kept_chars(s, idx + 1, total + Len(s[idx]), limit)

\* faulty variant: the terminator is not counted in max_len
write_string_no_room(buf, s, max_len, overflow_checks) ==
    [panicked |-> max_len = 0 /\ overflow_checks,
     buf |-> IF max_len = 0 /\ overflow_checks THEN buf
             ELSE buf \o as_bytes(SubSeq(s, 1, kept_chars(s, 1, 0, max_len))) \o <<0>>]

\* BigEndianTypes::write_string; s is the sequence of its characters, each
\* the bytes of its encoding. `max_len - 1` on max_len = 0 panics in a build
\* with overflow checks and wraps to usize::MAX in a build without.
write_string(buf, s, max_len, overflow_checks) ==
    IF max_len = 0
    THEN IF overflow_checks THEN [panicked |-> TRUE, buf |-> buf]
         ELSE [panicked |-> FALSE, buf |-> buf \o as_bytes(s) \o <<0>>]
    ELSE LET end == kept_chars(s, 1, 0, max_len - 1)
             trimmed == SubSeq(s, 1, end)
         IN [panicked |-> FALSE, buf |-> buf \o as_bytes(trimmed) \o <<0>>]

----------------------------------------------------------------------------
(* String writer harness *)

MaxLenArg == 9

InitString ==
    /\ s_pc = "input"
    /\ s_str \in FieldStrings
    /\ s_max \in 0..MaxLenArg
    /\ s_init \in {<<>>, <<66, 0>>}
    /\ s_buf = s_init
    /\ HeaderIdle /\ IterIdle /\ WriteReadIdle /\ ContainerIdle /\ QueryIdle
    /\ FieldIdle /\ CodecIdle /\ MoveIdle /\ LinkIdle

\* BigEndianTypes::write_string(&mut buf, s, max_len)
WriteString ==
    /\ s_pc = "input"
    /\ \E overflow_checks \in BOOLEAN :
          LET r == write_string(s_buf, s_str, s_max, overflow_checks)
          IN /\ s_buf' = r.buf
             /\ s_pc' = IF r.panicked THEN "panicked" ELSE "written"
    /\ UNCHANGED <<s_str, s_max, s_init>>
    /\ UNCHANGED <<hvars, bvars, wvars, cvars, qvars, fvars, zvars, mvars, lvars>>

NextString == WriteString

SpecString == InitString /\ [][NextString]_vars

----------------------------------------------------------------------------
(* Library link harness: resolve_relative_paths on extracted links *)

MaxLinks == 2

BlendPaths ==
    {<<SEP, "home", SEP, "user", SEP, "project", SEP, "scene.blend">>,
     <<SEP, "scene.blend">>,
     <<"scene.blend">>,
     <<"project", SEP, "scene.blend">>,
     <<SEP>>,
     <<>>}

LinkPaths ==
    {<<"textures", SEP, "wood.jpg">>,
     <<SEP, SEP, "textures", SEP, "wood.jpg">>,
     <<SEP, "absolute", SEP, "path", SEP, "file.blend">>}

LinkLists ==
    UNION {[1..n -> {LibraryLink(p, "Image") : p \in LinkPaths}] : n \in 0..MaxLinks}

InitLink ==
    /\ l_pc = "extracted"
    /\ l_file \in BlendPaths
    /\ l_links \in LinkLists
    /\ l_res = None
    /\ HeaderIdle /\ IterIdle /\ WriteReadIdle /\ ContainerIdle /\ QueryIdle
    /\ FieldIdle /\ CodecIdle /\ MoveIdle /\ StringIdle

\* extractor.resolve_relative_paths(&mut links)
ResolveRelativePaths ==
    /\ l_pc = "extracted"
    /\ LET r == resolve_relative_paths(l_file, l_links)
       IN /\ l_links' = r.links
          /\ l_res' = Some([res |-> r.res, before |-> l_links])
    /\ l_pc' = "resolved"
    /\ UNCHANGED l_file
    /\ UNCHANGED <<hvars, bvars, wvars, cvars, qvars, fvars, zvars, mvars, svars>>

NextLink == ResolveRelativePaths

SpecLink == InitLink /\ [][NextLink]_vars

----------------------------------------------------------------------------
(* What a generated stream holds, read off the records it was built from *)

GP == PointerSize_bytes(b_hdr)
GRecs == b_recs.recs
GN == Len(GRecs)

\* record i lies whole in the stream
Whole(i) == i < GN \/ b_recs.cut = 0

\* the size field holds the payload length in the header's byte order, and
\* the type code is not the terminator tag
WellFormed(r) ==
    /\ r.code # DNA1
    /\ r.sz = (IF b_hdr.endianness = "Little"
               THEN <<Len(r.payload), 0, 0, 0>>
               ELSE <<0, 0, 0, Len(r.payload)>>)

\* the number of leading records that are whole and well-formed
Lead ==
    CHOOSE k \in 0..GN :
        /\ \A i \in 1..k : Whole(i) /\ WellFormed(GRecs[i])
        /\ k < GN => ~(Whole(k + 1) /\ WellFormed(GRecs[k + 1]))

\* offset of record i in the stream, and the bytes of it that are present
RecOff(i) == Len(Concat([j \in 1..(i - 1) |-> RecBytes(GP, GRecs[j])]))
RecPresent(i) ==
    Len(RecBytes(GP, GRecs[i])) - (IF i = GN THEN b_recs.cut ELSE 0)

LeadBytes == Concat([j \in 1..Lead |-> RecBytes(GP, GRecs[j])])

\* what follows the leading well-formed records
AtEnd == Lead = GN
AtTerminator ==
    /\ Lead < GN /\ GRecs[Lead + 1].code = DNA1 /\ RecPresent(Lead + 1) >= 4
AtPartialCode == Lead < GN /\ RecPresent(Lead + 1) < 4
AtPartialPrologue ==
    /\ Lead < GN /\ GRecs[Lead + 1].code # DNA1
    /\ RecPresent(Lead + 1) >= 4 /\ RecPresent(Lead + 1) < 16 + GP
AtShortPayload ==
    /\ Lead < GN /\ GRecs[Lead + 1].code # DNA1
    /\ RecPresent(Lead + 1) >= 16 + GP
    /\ read_u32(b_hdr.endianness, GRecs[Lead + 1].sz)
         > Len(b_stream) - (RecOff(Lead + 1) + 16 + GP)

OkItems == {i \in 1..Len(b_items) : b_items[i].kind = "Ok"}
ErrItems == {i \in 1..Len(b_items) : b_items[i].kind = "Err"}

\* the yielded items are exactly the leading records, as blocks
YieldedLead ==
    /\ Len(b_items) >= Lead
    /\ \A i \in 1..Lead :
          /\ b_items[i].kind = "Ok"
          /\ b_items[i].block.code = GRecs[i].code
          /\ b_items[i].block.size = Len(GRecs[i].payload)
          /\ b_items[i].block.data = GRecs[i].payload

----------------------------------------------------------------------------
(* Claims on the header codec *)

\* C1: for every 12-byte input on which Header::from_reader succeeds,
\* Header::write_to_writer of the parsed header emits the same 12 bytes.
C1_HeaderRoundTrip == h_pc = "written" => h_out = h_in

\* the parts of a header input, as they lie in the bytes
HasMagic == Len(h_in) >= 7 /\ SubSeq(h_in, 1, 7) = MAGIC
BadMagic == Len(h_in) >= 7 /\ SubSeq(h_in, 1, 7) # MAGIC
BadPointerByte == HasMagic /\ Len(h_in) >= 8 /\ h_in[8] \notin {95, 45}
GoodSentinels ==
    /\ HasMagic /\ Len(h_in) >= 9
    /\ h_in[8] \in {95, 45} /\ h_in[9] \in {118, 86}
BadEndianByte ==
    /\ HasMagic /\ Len(h_in) >= 9
    /\ h_in[8] \in {95, 45} /\ h_in[9] \notin {118, 86}
VersionBytes == SubSeq(h_in, 10, 12)
AllDigits == \A i \in 10..12 : h_in[i] \in 48..57
HeaderParsed == h_pc \in {"parsed", "written"}

\* C11: a 7-byte prefix that differs from BLENDER makes Header::from_reader
\* fail with InvalidFormat carrying those 7 bytes, whatever follows them,
\* and open of a file holding the input returns no container.
C11_BadMagicFails ==
    BadMagic =>
        /\ HeaderParsed => h_res = Err("InvalidFormat", SubSeq(h_in, 1, 7))
        /\ h_open # "ok"
C11_Witness ==
    /\ BadMagic /\ HeaderParsed /\ h_open = "err"
    /\ SubSeq(h_in, 1, 6) = SubSeq(MAGIC, 1, 6) /\ Len(h_in) > 7

\* C12: with the magic right, a pointer-width byte outside {'_', '-'} or
\* an endianness byte outside {'v', 'V'} makes Header::from_reader fail
\* with InvalidFormat naming that byte, whatever the later bytes are.
C12_BadSentinelFails ==
    HeaderParsed =>
        /\ BadPointerByte => h_res = Err("InvalidFormat", <<h_in[8]>>)
        /\ BadEndianByte => h_res = Err("InvalidFormat", <<h_in[9]>>)
C12_Witness ==
    /\ HeaderParsed /\ BadEndianByte /\ Len(h_in) = 12 /\ AllDigits
    /\ h_res = Err("InvalidFormat", <<h_in[9]>>)

\* C13: with the magic and both sentinels right, Header::from_reader
\* succeeds only when the three version bytes are all ASCII digits, and
\* fails with InvalidFormat carrying the three bytes otherwise.
C13_VersionDigitsOnly ==
    (HeaderParsed /\ GoodSentinels /\ Len(h_in) >= 12) =>
        /\ h_res.ok <=> AllDigits
        /\ ~AllDigits => h_res = Err("InvalidFormat", VersionBytes)

\* C14: '_' parses to 32-bit and '-' to 64-bit, 'v' to little and 'V' to
\* big endian, three digits to their decimal value; BLENDER-v279 parses to
\* magic BLENDER, 64-bit, little endian, version 279.
C14_SentinelMapping ==
    (HeaderParsed /\ GoodSentinels /\ Len(h_in) >= 12 /\ AllDigits) =>
        h_res = Ok([magic        |-> MAGIC,
                    pointer_size |-> IF h_in[8] = 95 THEN "Bits32" ELSE "Bits64",
                    endianness   |-> IF h_in[9] = 118 THEN "Little" ELSE "Big",
                    version      |-> (h_in[10] - 48) * 100 + (h_in[11] - 48) * 10
                                     + (h_in[12] - 48)])
C14_Witness ==
    /\ HeaderParsed
    /\ h_in = MAGIC \o <<45, 86, 50, 55, 57>>
    /\ h_res.ok /\ h_res.val.endianness = "Big" /\ h_res.val.version = 279

\* C28: Header::write_to_writer emits exactly 12 bytes for every Header
\* value: the magic, the two sentinels and three version digits, also when
\* the version is greater than 999.
C28_TwelveBytes ==
    h_pc \in {"written", "emitted"} =>
        /\ Len(h_out) = 12
        /\ SubSeq(h_out, 1, 7) = h_res.val.magic
        /\ h_out[8] \in {95, 45} /\ h_out[9] \in {118, 86}
        /\ \A i \in 10..12 : h_out[i] \in 48..57

----------------------------------------------------------------------------
(* Claims on lookup by type *)

\* the blocks of a directory whose code starts with the prefix, in order
StartsWith(code, prefix) == \A k \in 1..Len(prefix) : code[k] = prefix[k]
RECURSIVE Matching(_, _)
Matching(blocks, prefix) ==
    IF blocks = <<>> THEN <<>>
    ELSE (IF StartsWith(Head(blocks).code, prefix) THEN <<Head(blocks)>> ELSE <<>>)
         \o Matching(Tail(blocks), prefix)

CategoryCode(name) ==
    CASE name = "library" -> <<76, 73>>
      [] name = "image" -> <<73, 77>>
      [] name = "sound" -> <<83, 79>>
      [] name = "movie_clip" -> <<77, 67>>
      [] name = "mesh" -> <<77, 69>>
      [] name = "material" -> <<77, 65>>
      [] name = "texture" -> <<84, 69>>

\* C15: for a prefix of 1 to 4 bytes, get_blocks_by_type and
\* get_blocks_by_type_mut each return exactly the blocks whose code starts
\* with the prefix, in directory order, so both return the same blocks; a
\* category query returns that lookup for LI, IM, SO, MC, ME, MA or TE.
C15_LookupByPrefix ==
    /\ q_ro.some => q_ro.val = Ok(Matching(q_c.val.blocks, q_code))
    /\ q_mut.some => q_mut.val = Ok(Matching(q_c.val.blocks, q_code))
    /\ q_cat.some =>
          q_cat.val.res = Ok(Matching(q_c.val.blocks, CategoryCode(q_cat.val.name)))
C15_Witness ==
    /\ q_ro.some /\ q_mut.some /\ q_cat.some
    /\ q_code = <<77>>
    /\ Len(q_ro.val.val) = 1 /\ Len(q_c.val.blocks) = 2
    /\ q_ro.val.val[1] = q_c.val.blocks[2]
    /\ q_cat.val.name = "texture" /\ Len(q_cat.val.res.val) = 1

----------------------------------------------------------------------------
(* Claims on whole-file compression *)

Compressed == z_made.val.sig # <<>>
Intact == ~z_made.val.damaged
\* the leading bytes of the file are one of the recognised signatures
Recognised ==
    /\ Len(z_file) >= 4
    /\ \/ <<z_file[1], z_file[2]>> \in {<<120, 156>>, <<120, 1>>, <<120, 218>>}
       \/ SubSeq(z_file, 1, 4) = <<40, 181, 47, 253>>
       \/ SubSeq(z_file, 1, 4) = <<31, 139, 8, 0>>

\* C18: when open succeeds on an uncompressed image, open on each intact
\* compressed form of it (zlib, zstd, gzip) succeeds with the same header
\* and the same blocks, in order, payloads and end offsets included.
C18_CompressedOpensTheSame ==
    (z_open.some /\ z_plain.some /\ Compressed /\ Intact /\ z_plain.val.ok) =>
        /\ z_open.val.ok
        /\ z_open.val.val.header = z_plain.val.val.header
        /\ z_open.val.val.blocks = z_plain.val.val.blocks
C18_Witness ==
    /\ z_open.some /\ z_plain.some /\ Intact
    /\ z_made.val.sig = <<40, 181, 47, 253>>
    /\ z_plain.val.ok /\ Len(z_plain.val.val.blocks) = 2
    /\ z_plain.val.val.header.endianness = "Big"
    /\ z_open.val.ok /\ z_open.val.val.blocks[2].data_offset > 12

\* C19: decompress_if_needed decodes a file exactly when its first four
\* bytes are recognised (78 9C, 78 01 or 78 DA; 28 B5 2F FD; 1F 8B 08 00),
\* with the codec of that signature; any other file of four bytes or more
\* comes back byte for byte; a file that cannot be read or decoded gives an
\* error and no buffer.
C19_CodecBySignature ==
    z_data.some =>
        /\ (Compressed /\ Intact) => z_data.val = Ok(z_made.val.raw)
        /\ (Compressed /\ ~Intact) => ~z_data.val.ok
        /\ (Len(z_file) >= 4 /\ ~Recognised) => z_data.val = Ok(z_file)
        /\ Len(z_file) < 4 => ~z_data.val.ok
        /\ (~Compressed /\ Recognised) => ~z_data.val.ok
C19_Witness ==
    /\ z_data.some /\ ~Compressed
    /\ Len(z_file) >= 4
    /\ SubSeq(z_file, 1, 4) = <<31, 139, 8, 8>>
    /\ z_data.val = Ok(z_file)

----------------------------------------------------------------------------
(* Claims on the field accessors *)

\* what the set was given, read off the characters of the value
FieldCap == Len(f_prev.val.data)
ValueBytes == Concat(f_val)
NoNul == \A i \in 1..Len(f_val) : f_val[i] # <<0>>
\* the longest run of leading characters that fits the payload whole
WholeChars ==
    LET fits == {n \in 0..Len(f_val) : Len(Concat(SubSeq(f_val, 1, n))) <= FieldCap}
    IN CHOOSE n \in fits : \A m \in fits : m <= n
CutInsideChar ==
    /\ WholeChars < Len(f_val)
    /\ Len(Concat(SubSeq(f_val, 1, WholeChars))) < FieldCap

\* C16 as stated: after set_string_field with a value that holds no NUL,
\* get_string_field returns the value when it is not longer than the
\* payload, and the first len(payload) bytes of the value when it is.
C16_StringRoundTrip ==
    (f_pc = "got_string" /\ NoNul) =>
        f_got.val = Ok(IF Len(ValueBytes) <= FieldCap THEN ValueBytes
                       ELSE SubSeq(ValueBytes, 1, FieldCap))

\* C16 amended: the get returns the value when it is not longer than the
\* payload; when it is longer, it returns the characters that fit whole,
\* followed by one U+FFFD if the cut falls inside a character.
C16_StringRoundTripLossy ==
    (f_pc = "got_string" /\ NoNul) =>
        f_got.val = Ok(IF Len(ValueBytes) <= FieldCap THEN ValueBytes
                       ELSE Concat(SubSeq(f_val, 1, WholeChars))
                            \o (IF CutInsideChar THEN <<239, 191, 189>> ELSE <<>>))
C16_Witness ==
    /\ f_pc = "got_string" /\ NoNul
    /\ Len(f_val) = 2 /\ Len(ValueBytes) = 5 /\ FieldCap = 4
    /\ CutInsideChar /\ WholeChars = 1
    /\ Len(f_got.val.val) = 5

\* C17: after set_float_array_field(values), get_float_array_field(count)
\* returns count elements; element i is values[i] when i < len(values) and
\* bytes [4i, 4i+4) lie inside the payload, and 0.0 when they do not; the
\* set leaves every payload byte of a slot that does not fit as it was.
C17_FloatRoundTrip ==
    f_pc \in {"set_floats", "got_floats"} =>
        /\ Len(f_block.val.data) = FieldCap
        /\ \A k \in 1..FieldCap :
              (((k - 1) \div 4) * 4 + 4 > FieldCap) =>
                  f_block.val.data[k] = f_prev.val.data[k]
        /\ f_pc = "got_floats" =>
              /\ f_got.val.ok /\ Len(f_got.val.val) = f_count
              /\ \A i \in 0..(f_count - 1) :
                    /\ (i < Len(f_val) /\ 4 * i + 4 <= FieldCap) =>
                          f_got.val.val[i + 1] = f_val[i + 1]
                    /\ 4 * i + 4 > FieldCap => f_got.val.val[i + 1] = <<0, 0, 0, 0>>
C17_Witness ==
    /\ f_pc = "got_floats" /\ FieldCap = 6 /\ f_count = 3
    /\ f_val = <<F32_10, F32_2>>
    /\ f_got.val.val = <<F32_10, <<0, 0, 0, 0>>, <<0, 0, 0, 0>>>>
    /\ f_block.val.data[5] = f_prev.val.data[5]

----------------------------------------------------------------------------
(* Claims on the block codec and its iterator *)

\* C2: a stream of well-formed blocks followed by end-of-stream or by the
\* terminator tag parses without error into those blocks, and re-emitting
\* them in order reproduces the bytes before the terminator.
C2_StreamRoundTrip ==
    (AtEnd \/ AtTerminator) =>
        /\ ErrItems = {}
        /\ b_emitted <= Lead
        /\ b_out = Concat([j \in 1..b_emitted |-> RecBytes(GP, GRecs[j])])
        /\ b_finished => Len(b_items) = Lead
        /\ (b_finished /\ b_emitted = Len(b_items)) => b_out = LeadBytes

C2_Witness ==
    /\ (AtEnd \/ AtTerminator)
    /\ b_finished /\ b_emitted = Len(b_items) /\ b_emitted = Lead /\ Lead >= 1
    /\ \E i \in 1..Lead : GRecs[i].payload # <<>>
    /\ b_hdr.endianness = "Big"

\* C3: a Block whose payload length equals its size, whose code is not the
\* terminator tag and whose address fits the pointer width is parsed back
\* from its serialization with the same code, size, address, catalog
\* index, element count and payload.
C3_Pre ==
    /\ Len(w_block.data) = w_block.size
    /\ w_block.code # DNA1
    /\ w_hdr.pointer_size = "Bits32" => w_block.old_memory_address.hi = 0

C3_BlockRoundTrip ==
    (w_pc = "read" /\ C3_Pre) =>
        /\ w_back.kind = "Block"
        /\ w_back.block.code = w_block.code
        /\ w_back.block.size = w_block.size
        /\ w_back.block.old_memory_address = w_block.old_memory_address
        /\ w_back.block.sdna_index = w_block.sdna_index
        /\ w_back.block.count = w_block.count
        /\ w_back.block.data = w_block.data

C3_Witness ==
    /\ w_pc = "read" /\ C3_Pre /\ w_back.kind = "Block"
    /\ w_block.size = MaxPayload
    /\ w_hdr.pointer_size = "Bits64" /\ w_block.old_memory_address.hi > 0

\* C29: under a 32-bit header the address is written as its low 32 bits
\* and parses back as those bits, so an address of 2^32 or more comes back
\* different and every address parsed is below 2^32; under a 64-bit header
\* all 64 bits are written and come back unchanged.
C29_Readable == Len(w_block.data) = w_block.size /\ w_block.code # DNA1
C29_AddressWidth ==
    LET a    == w_block.old_memory_address
        le32 == [k \in 1..4 |-> (a.lo \div (256 ^ (k - 1))) % 256]
    IN /\ (w_pc \in {"written", "read"} /\ w_hdr.pointer_size = "Bits32") =>
             /\ Len(w_bytes) = 20 + Len(w_block.data)
             /\ SubSeq(w_bytes, 9, 12)
                  = (IF w_hdr.endianness = "Little" THEN le32
                     ELSE <<le32[4], le32[3], le32[2], le32[1]>>)
       /\ (w_pc \in {"written", "read"} /\ w_hdr.pointer_size = "Bits64") =>
             Len(w_bytes) = 24 + Len(w_block.data)
       /\ (w_pc = "read" /\ C29_Readable) =>
             /\ w_back.kind = "Block"
             /\ w_hdr.pointer_size = "Bits32" =>
                   /\ w_back.block.old_memory_address = [hi |-> 0, lo |-> a.lo]
                   /\ a.hi # 0 => w_back.block.old_memory_address # a
             /\ w_hdr.pointer_size = "Bits64" =>
                   w_back.block.old_memory_address = a
C29_Witness ==
    /\ w_pc = "read" /\ C29_Readable /\ w_back.kind = "Block"
    /\ w_hdr.pointer_size = "Bits32" /\ w_hdr.endianness = "Big"
    /\ w_block.old_memory_address = [hi |-> 1, lo |-> 5]
    /\ w_back.block.old_memory_address = [hi |-> 0, lo |-> 5]

\* C8: a block whose declared size exceeds the bytes left after its
\* prologue yields an error, not a block with a shorter payload, and the
\* loop of open fails.
C8_TruncatedPayloadFails ==
    (b_finished /\ AtShortPayload) =>
        /\ YieldedLead
        /\ Len(b_items) = Lead + 1
        /\ b_items[Lead + 1].kind = "Err"
        /\ ~ParseBlocks(b_stream, 0, b_hdr).ok

C8_Witness ==
    /\ b_finished /\ AtShortPayload /\ Lead >= 1 /\ b_last = "Err"
    /\ GRecs[GN].payload # <<>> /\ b_recs.cut > 0 /\ Lead + 1 = GN

\* C9: the sequence ends normally only on end-of-stream at a block
\* boundary; an end of stream inside a type code, a prologue or a payload
\* is an error.
C9_EofOnlyAtBoundary ==
    b_finished =>
        /\ AtEnd => (ErrItems = {} /\ Len(b_items) = Lead)
        /\ (AtPartialCode \/ AtPartialPrologue \/ AtShortPayload) =>
              (Len(b_items) = Lead + 1 /\ b_items[Lead + 1].kind = "Err")

\* C10: construction stops at the first terminator tag: the directory is
\* the blocks before it, in order, none of them with code DNA1, and nothing
\* after the tag is read.
C10_StopsAtTerminator ==
    /\ \A i \in OkItems : b_items[i].block.code # DNA1
    /\ (b_finished /\ AtTerminator) =>
          /\ YieldedLead
          /\ Len(b_items) = Lead
          /\ b_pos = RecOff(Lead + 1) + 4
          /\ LET dir == ParseBlocks(b_stream, 0, b_hdr)
             IN /\ dir.ok
                /\ dir.blocks = [i \in 1..Lead |-> b_items[i].block]

C10_Witness ==
    /\ b_finished /\ AtTerminator /\ Lead >= 1
    /\ Len(b_stream) > b_pos

\* C25: a block consumes 16 + P + size bytes whatever its element count
\* is, a block of size 0 has an empty payload, and the end offset of each
\* block is the stream position right after its payload: the offset at
\* which the next record starts.
C25_BlockExtent ==
    /\ b_finished => Len(b_items) >= Lead
    /\ \A i \in 1..Min(Lead, Len(b_items)) :
          LET b == b_items[i].block
          IN /\ b_items[i].kind = "Ok"
             /\ b.size = Len(GRecs[i].payload)
             /\ Len(b.data) = b.size
             /\ b.data_offset = RecOff(i + 1)
             /\ b.data_offset
                  = (IF i = 1 THEN 0 ELSE b_items[i - 1].block.data_offset)
                    + 16 + (IF b_hdr.pointer_size = "Bits32" THEN 4 ELSE 8) + b.size
    /\ (b_last = "Block" /\ Len(b_items) <= Lead) =>
          b_pos = b_items[Len(b_items)].block.data_offset
C25_Witness ==
    /\ b_last = "Block" /\ Len(b_items) = 2 /\ Lead = 2
    /\ b_items[1].block.size = MaxPayload
    /\ b_items[2].block.size = 0 /\ b_items[2].block.count > 1
    /\ b_items[2].block.data = <<>>
    /\ b_hdr.pointer_size = "Bits64" /\ b_hdr.endianness = "Big"
    /\ b_pos = 48 + MaxPayload

\* C27: once next() has returned None or has yielded an error, every later
\* next() returns None, yields nothing and leaves the stream position where
\* it was; so at most one error is yielded, and it is the last item.
C27_Done == b_last \in {"None", "Err"}
C27_Shape ==
    /\ C27_Done => b_finished
    /\ Cardinality(ErrItems) <= 1
    /\ \A i \in ErrItems : i = Len(b_items)
C27_Step ==
    (C27_Done /\ b_last' # b_last) =>
        (b_last' = "None" /\ b_items' = b_items /\ b_pos' = b_pos /\ b_finished')
C27_ThreeStates == []C27_Shape /\ [][C27_Step]_vars
C27_Witness ==
    /\ b_last = "None" /\ ErrItems # {} /\ Len(b_items) = 2
    /\ b_pos < Len(b_stream)

----------------------------------------------------------------------------
(* Claims on the container *)

SameBlock(a, b) ==
    /\ a.code = b.code
    /\ a.size = b.size
    /\ a.old_memory_address = b.old_memory_address
    /\ a.sdna_index = b.sdna_index
    /\ a.count = b.count
    /\ a.data = b.data

\* C4: after a successful save, a fresh open of the path returns the header
\* and the blocks (code, size, address, catalog index, element count,
\* payload, in order) the container held when it saved.
C4_SaveThenOpen ==
    (saved.some /\ fresh.some) =>
        /\ fresh.val.ok
        /\ fresh.val.val.header = saved.val.header
        /\ Len(fresh.val.val.blocks) = Len(saved.val.blocks)
        /\ \A i \in 1..Len(saved.val.blocks) :
              SameBlock(fresh.val.val.blocks[i], saved.val.blocks[i])

C4_Witness ==
    /\ saved.some /\ fresh.some /\ fresh.val.ok
    /\ loaded.some /\ loaded.val.compressed
    /\ edits = MaxEdits
    /\ Len(saved.val.blocks) = 2
    /\ saved.val.blocks[1].data # PayloadOf(FieldPayload)

\* C5: save on a container that holds no writable handle returns an error
\* and changes neither the file nor the container.
C5_ReadOnlySaveFails ==
    [][(lastOp' = "save" /\ bf.some /\ ~bf.val.file.some) =>
          (lastRes' = "err" /\ disk' = disk /\ bf' = bf)]_vars

C5_Witness ==
    /\ lastOp = "save" /\ lastRes = "err"
    /\ bf.some /\ ~bf.val.file.some
    /\ loaded.val.by = "open"
    /\ edits >= 1 /\ Len(bf.val.blocks) >= 1

\* C6: after a successful save the file is the serialized header, then
\* every block in directory order, then the catalog bytes (the terminator
\* tag and all after it) that the file held at open.
C6_SaveKeepsCatalog ==
    (lastOp = "save" /\ lastRes = "ok") =>
        disk = Header_write_to_writer(bf.val.header)
               \o Concat([i \in 1..Len(bf.val.blocks) |->
                             Block_write_to_writer(bf.val.blocks[i], bf.val.header)])
               \o loaded.val.catalog

\* C7: every parsed block keeps payload length = size, and a call of
\* set_string_field or set_float_array_field returns Ok and leaves the
\* size, code, address, catalog index and element count of every block as
\* they were.
C7_PayloadIsSize ==
    bf.some => \A i \in 1..Len(bf.val.blocks) :
                  Len(bf.val.blocks[i].data) = bf.val.blocks[i].size

C7_SetterStep ==
    (lastOp' \in {"set_string_field", "set_float_array_field"} /\ edits' = edits + 1) =>
        /\ lastRes' = "ok"
        /\ Len(bf'.val.blocks) = Len(bf.val.blocks)
        /\ \A i \in 1..Len(bf.val.blocks) :
              /\ bf'.val.blocks[i].code = bf.val.blocks[i].code
              /\ bf'.val.blocks[i].size = bf.val.blocks[i].size
              /\ bf'.val.blocks[i].old_memory_address = bf.val.blocks[i].old_memory_address
              /\ bf'.val.blocks[i].sdna_index = bf.val.blocks[i].sdna_index
              /\ bf'.val.blocks[i].count = bf.val.blocks[i].count
              /\ Len(bf'.val.blocks[i].data) = bf.val.blocks[i].size

C7_SettersKeepShape == []C7_PayloadIsSize /\ [][C7_SetterStep]_vars

C7_Witness ==
    /\ bf.some /\ edits = MaxEdits
    /\ lastOp = "set_string_field"
    /\ \E i \in 1..Len(bf.val.blocks) :
          /\ bf.val.blocks[i].size = FieldPayload
          /\ bf.val.blocks[i].data = [k \in 1..FieldPayload |-> 96 + k]

\* C20: close leaves the container with no file handle and no mapped view
\* and with its path, header, catalog and blocks as they were, and leaves
\* the file alone; a further close changes nothing; from then on, until the
\* path is opened again, the handle stays away and every save returns the
\* error with the file and the container untouched.
C20_Closed == bf.some /\ ~bf.val.file.some /\ ~bf.val.mmap.some
C20_CloseStep ==
    (lastOp' = "close" /\ bf.some) =>
        /\ C20_Closed'
        /\ bf'.val.path = bf.val.path
        /\ bf'.val.header = bf.val.header
        /\ bf'.val.dna = bf.val.dna
        /\ bf'.val.blocks = bf.val.blocks
        /\ disk' = disk
C20_AfterClose ==
    (C20_Closed /\ lastOp' \notin {"open", "open_read_write"}) =>
        /\ C20_Closed'
        /\ lastOp' = "close" => bf' = bf
        /\ lastOp' = "save" => (lastRes' = "err" /\ disk' = disk /\ bf' = bf)
C20_CloseIdempotent == [][C20_CloseStep /\ C20_AfterClose]_vars
C20_Witness ==
    /\ lastOp = "save" /\ lastRes = "err"
    /\ C20_Closed
    /\ loaded.val.by = "open_read_write"
    /\ saved.some /\ edits = MaxEdits

\* C26: save changes the file only after the whole image is built, by
\* truncating to length 0, seeking to the start and writing the image; after
\* a successful save the file is that image and nothing else, also when the
\* file was longer before; a failure while the image is built leaves the
\* file as it was.
C26_IsPrefix(p, image) == Len(p) <= Len(image) /\ p = SubSeq(image, 1, Len(p))
C26_SaveStep ==
    (lastOp' = "save" /\ bf.some /\ bf.val.file.some) =>
        LET image == Header_write_to_writer(bf.val.header)
                     \o Concat([i \in 1..Len(bf.val.blocks) |->
                                  Block_write_to_writer(bf.val.blocks[i], bf.val.header)])
                     \o Dna_write_to_writer(bf.val.dna)
        IN /\ lastRes' = "ok" <=> s_fault' = "none"
           /\ lastRes' = "ok" => (disk' = image /\ Len(disk') = Len(image))
           /\ s_fault' = "serialize" => disk' = disk
           /\ disk' # disk => /\ s_fault' \in {"none", "seek", "write"}
                              /\ C26_IsPrefix(disk', image)
           /\ bf'.val.blocks = bf.val.blocks
C26_SaveReplaces == [][C26_SaveStep]_vars
C26_Witness ==
    /\ lastOp = "save" /\ lastRes = "ok" /\ s_fault = "none"
    /\ loaded.some /\ ~loaded.val.compressed /\ loaded.val.catalog # <<>>
    /\ edits >= 1 /\ Len(bf.val.blocks) >= 1
    /\ Len(disk) = HEADER_LEN + Len(bf.val.blocks) * (24 + FieldPayload)

----------------------------------------------------------------------------
(* Claims on the move detector *)

MatchStep == m_calls' = m_calls + 1 /\ m_last'.val.op = "match_create"
PendingPaths(q) == {q[i].path : i \in 1..Len(q)}

\* C21: match_create(q, d) returns a move exactly when some pending delete
\* that has not expired has the flag d and scores at least 50 against q; the
\* move is from the highest-scoring such path, the earliest recorded on a
\* tie, to q with flag d, and get_new_path(from) is q afterwards; otherwise
\* it returns None and the move map is unchanged.
C21_Step ==
    MatchStep =>
        LET q    == m_last'.val.path
            d    == m_last'.val.is_directory
            ret  == m_last'.val.ret
            Sc(i) == calculate_match_score(m_pending[i].path, q)
            Cand == {i \in 1..Len(m_pending) :
                        /\ m_now - m_pending[i].ts <= m_window
                        /\ m_pending[i].is_directory = d
                        /\ Sc(i) >= 50}
            Top  == {i \in Cand : \A j \in Cand : Sc(j) <= Sc(i)}
            best == CHOOSE i \in Top : \A j \in Top : i <= j
        IN /\ ret.some <=> Cand # {}
           /\ Cand # {} =>
                 /\ ret.val.from = m_pending[best].path
                 /\ ret.val.to = q
                 /\ ret.val.is_directory = d
                 /\ <<ret.val.from, q>> \in m_map'
                 /\ \A kv \in m_map' : kv[1] = ret.val.from => kv[2] = q
           /\ Cand = {} => m_map' = m_map
C21_MatchCreate == [][C21_Step]_vars
C21_Witness ==
    /\ m_last.some /\ m_last.val.op = "match_create" /\ m_last.val.ret.some
    /\ m_last.val.ret.val.from = P_new /\ m_last.val.ret.val.to = P_lib
    /\ get_new_path(Det, P_new) = Some(P_lib)
    /\ \E i \in 1..Len(m_pending) :
          /\ m_pending[i].path = P_old
          /\ m_pending[i].is_directory = m_last.val.is_directory
          /\ m_now - m_pending[i].ts <= m_window
    /\ m_recorded[P_old] = 1 /\ m_recorded[P_new] = 1 /\ m_calls = 3

\* C22: when more than the correlation window has passed since the latest
\* record_delete(p, _), match_create does not return a move from p and p is
\* not pending afterwards; when every pending delete is that old it returns
\* None.
C22_Old(p) == m_stamp[p] >= 0 /\ m_now - m_stamp[p] > m_window
C22_Step ==
    MatchStep =>
        LET ret == m_last'.val.ret
        IN /\ \A p \in MovePaths :
                 C22_Old(p) => /\ ret.some => ret.val.from # p
                               /\ p \notin PendingPaths(m_pending')
           /\ (\A p \in PendingPaths(m_pending) : C22_Old(p)) => ~ret.some
C22_ExpiredNeverMatched == [][C22_Step]_vars
C22_Witness ==
    /\ m_last.some /\ m_last.val.op = "match_create" /\ ~m_last.val.ret.some
    /\ m_last.val.path = P_new
    /\ m_calls = 2 /\ m_recorded[P_old] = 1
    /\ C22_Old(P_old) /\ m_now - m_stamp[P_old] = m_window + 1
    /\ m_pending = <<>>

\* C30: the moves returned with from = p never outnumber the
\* record_delete(p, _) calls, the pending deletes hold at most one entry per
\* path, and the entry a match returned is no longer pending.
C30_OneMovePerDelete ==
    /\ \A p \in MovePaths : m_moved[p] <= m_recorded[p]
    /\ \A i, j \in 1..Len(m_pending) :
          m_pending[i].path = m_pending[j].path => i = j
    /\ (m_last.some /\ m_last.val.ret.some) =>
          m_last.val.ret.val.from \notin PendingPaths(m_pending)
C30_Witness ==
    /\ m_moved[P_old] = 2 /\ m_recorded[P_old] = 2
    /\ m_last.val.ret.some /\ m_last.val.ret.val.from = P_old

----------------------------------------------------------------------------
(* Claims on library links *)

\* the text is the directory followed by the path, one separator between
\* them where the directory does not end in one
C23_DirThenPath(text, dir, path) ==
    \/ text = dir \o path
    \/ text = dir \o <<SEP>> \o path

\* C23: resolve_relative_paths sets absolute_path of every link with
\* is_relative = true to the parent directory of the blend file followed by
\* the path of the link, also for a path that starts with the // marker,
\* and leaves absolute_path of every other link None.
C23_ResolveRelative ==
    (l_pc = "resolved" /\ l_res.val.res.ok) =>
        /\ Len(l_links) = Len(l_res.val.before)
        /\ \A i \in 1..Len(l_links) :
              /\ l_links[i].path = l_res.val.before[i].path
              /\ l_links[i].is_relative = l_res.val.before[i].is_relative
              /\ l_links[i].is_relative =>
                    /\ l_links[i].absolute_path.some
                    /\ C23_DirThenPath(l_links[i].absolute_path.val,
                                       path_parent(l_file).val, l_links[i].path)
              /\ ~l_links[i].is_relative => l_links[i].absolute_path = None

----------------------------------------------------------------------------
(* Claims on the string writer *)

\* C24: for max_len >= 1 write_string appends the longest prefix of s made
\* of whole characters that is at most max_len - 1 bytes long, then one NUL
\* byte: at most max_len bytes are appended, and a string that fits with
\* its terminator is written in full.
C24_Fits(n) == Len(Concat(SubSeq(s_str, 1, n))) <= s_max - 1
C24_Longest == CHOOSE n \in 0..Len(s_str) :
                  C24_Fits(n) /\ \A m \in 0..Len(s_str) : C24_Fits(m) => m <= n
C24_WriteString ==
    (s_pc # "input" /\ s_max >= 1) =>
        /\ s_pc = "written"
        /\ s_buf = s_init \o Concat(SubSeq(s_str, 1, C24_Longest)) \o <<0>>
        /\ Len(s_buf) - Len(s_init) <= s_max
        /\ Len(Concat(s_str)) + 1 <= s_max => s_buf = s_init \o Concat(s_str) \o <<0>>
C24_Witness ==
    /\ s_pc = "written" /\ s_max = 5 /\ s_init = <<66, 0>>
    /\ s_str = <<(<<226, 130, 172>>), (<<195, 169>>)>>
    /\ s_buf = <<66, 0, 226, 130, 172, 0>>

====
